---- MODULE Spec2Model ----
(***************************************************************************)
(* The polling layer of the bus-data client: the four data hooks           *)
(* (useBusArrivals, useNearbyStops, useBusRoute, useBusPositions), the     *)
(* BusTracker component's arrivals poller and the RouteVisualization       *)
(* component's route loader; the BusMap and BusTracker components; the     *)
(* utils, the API configuration and the forwarding proxy.                  *)
(*                                                                         *)
(* Several specifications share the module: Spec follows one component     *)
(* instance (FairSpec is Spec with every request answered in the end),     *)
(* PairSpec two hook instances side by side, MapSpec a BusMap, TrackerSpec *)
(* a whole BusTracker, and NormSpec one call of one normalizer, validator, *)
(* URL builder or handler (the utils, the config, the proxy) on one input. *)
(*                                                                         *)
(* One behaviour follows ONE component instance of one kind, chosen in     *)
(* Init.  JavaScript runs every handler to completion, so a handler (an    *)
(* effect run, an interval callback, a click, the continuation of an       *)
(* awaited fetch) is one atomic action.  The continuation after            *)
(* `await fetch(...)` and the one after `await response.json()` touch no   *)
(* state in between, so both suspension points of a cycle are one Resolve  *)
(* step whose input is the whole response.                                 *)
(*                                                                         *)
(* Values: a key component is a number, 0 standing for every falsy prop    *)
(* (undefined, null, '', 0) and 1..MaxKey for the present ones; a payload  *)
(* is the list a response carries (arrivals, features, positions), each    *)
(* entry a record of the fields that are read: its serviceNo and, where    *)
(* the order of entries matters, its position in the response as id.       *)
(***************************************************************************)
EXTENDS Integers, Sequences, FiniteSets, TLC

\* The first key prop ranges over 0 .. MaxKey, the second over 0 .. MaxKey2;
\* a response's list has at most MaxArr entries; at most MaxInFlight
\* requests await their response at a time and at most MaxTimers intervals
\* are set at a time.  Where a normalizer is applied on its own, the lists of
\* its input have at most MaxList entries, and a coordinates argument of the
\* utils at most MaxCoords and a stop record at most MaxSlots; an encoded
\* polyline has at most MaxPoints points.  Of two hook instances side by side
\* the completed cycles are counted up to MaxCycles.  A BusMap makes at
\* most MaxLoads loadArrivals calls before all of them have settled, a
\* BusTracker has at most MaxRouteReqs route requests out at a time, and an
\* endpoint has at most MaxParams query parameters.
MaxKey == 2
MaxKey2 == 1
MaxArr == 1
MaxInFlight == 2
MaxTimers == 2
MaxList == 2
MaxCoords == 3
MaxSlots == 5
MaxCycles == 2
MaxPoints == 2
MaxLoads == 3
MaxRouteReqs == 1
MaxParams == 2

Kinds == {"arrivals", "nearby", "route", "positions", "positionsStub",
          "tracker", "routeviz"}

KeyVals == 0 .. MaxKey
Services == 1 .. MaxKey

RECURSIVE SeqsUpTo(_, _)
SeqsUpTo(S, n) ==
  IF n = 0 THEN {<<>>}
  ELSE LET shorter == SeqsUpTo(S, n - 1)
       IN  shorter \cup {Append(s, x) : s \in shorter, x \in S}

Payloads == SeqsUpTo({[serviceNo |-> n] : n \in Services}, MaxArr)

\* The lists of at most MaxList entries, each entry carrying its position.
TaggedLists ==
  UNION {{[i \in 1 .. n |-> [serviceNo |-> f[i], id |-> i]] :
            f \in [1 .. n -> Services]} : n \in 0 .. MaxList}

NoError == "null"
NoKey == <<0, 0>>

\* The error strings the catch blocks can store.
MsgNetwork == "fetch rejected"
MsgSyntax == "json parse error"
MsgType == "TypeError: data.data is undefined"
MsgServer == "server error message"
MsgFormat == "Invalid response format"
MsgHttpArrivals == "Failed to fetch arrivals"
MsgHttpPositions == "Failed to fetch bus positions"
MsgHttpTracker == "HTTP status: statusText"
MsgHttpRoute == "HTTP status: Failed to fetch route data"
MsgInvalidRoute == "Invalid route data response"
MsgCapability == "Real-time bus positions not available in this API"

----------------------------------------------------------------------------
(* Props and hook signatures *)

\* Which kinds take two key props: (latitude, longitude) and
\* (serviceNumber, busStopCode); the others take one.
TwoProps(kd) == kd \in {"nearby", "tracker"}

KeySpace(kd) ==
  IF TwoProps(kd) THEN KeyVals \X (0 .. MaxKey2) ELSE KeyVals \X {0}

\* The guard of each effect / fetch function: `if (!stopCode) return`,
\* `if (!latitude || !longitude) return`,
\* `if (!serviceNumber || !busStopCode) return`.
Present(kd, k) ==
  IF TwoProps(kd) THEN k[1] # 0 /\ k[2] # 0 ELSE k[1] # 0

\* Kinds that declare an `error` state.
HasError(kd) ==
  kd \in {"arrivals", "positions", "positionsStub", "tracker", "routeviz"}

\* Kinds whose effect calls setInterval.
Polls(kd) == kd \in {"arrivals", "positions", "positionsStub", "tracker"}

----------------------------------------------------------------------------
(* Snapshots *)

Snap(a, b) == [null |-> FALSE, a |-> a, b |-> b]
EmptySnap == Snap(<<>>, <<>>)
NullSnap == [null |-> TRUE, a |-> <<>>, b |-> <<>>]

\* useState's initial value of the result: [] for the lists, null for the
\* route data of useBusRoute and RouteVisualization.
InitialSnap(kd) ==
  IF kd \in {"route", "routeviz"} THEN NullSnap ELSE EmptySnap

----------------------------------------------------------------------------
(* Responses: what one fetch can come back with *)

Resp(net, ok, json, success, data, list, msg) ==
  [net |-> net, ok |-> ok, json |-> json, success |-> success,
   data |-> data, list |-> list, msg |-> msg]

\* fetch() rejects (network error).
Rejected == Resp("reject", FALSE, "bad", FALSE, "absent", <<>>, FALSE)
\* A response whose `ok` is false (non-2xx), for the callers that test it.
HttpFail == Resp("resp", FALSE, "bad", FALSE, "absent", <<>>, FALSE)
\* response.json() rejects.
BadJson == Resp("resp", TRUE, "bad", FALSE, "absent", <<>>, FALSE)
\* A JSON body {success, data?: {<list field>?}, error?: {message}}:
\* data is "absent" (no `data`), "nofield" (`data` without the list field)
\* or "list" (the field holds `list`); msg says whether error.message is set.
Body(success, data, list, msg) ==
  Resp("resp", TRUE, "body", success, data, list, msg)

\* Kinds that test response.ok before reading the body.
ChecksOk(kd) == kd \in {"arrivals", "positions", "tracker", "routeviz"}
\* Kinds that read data.error?.message.
ReadsMsg(kd) == kd \in {"arrivals", "positions", "tracker"}

BodiesOver(kd, lists) ==
  {Body(s, d, <<>>, m) : s \in BOOLEAN, d \in {"absent", "nofield"},
                         m \in (IF ReadsMsg(kd) THEN BOOLEAN ELSE {FALSE})}
  \cup {Body(s, "list", l, m) : s \in BOOLEAN, l \in lists,
                         m \in (IF ReadsMsg(kd) THEN BOOLEAN ELSE {FALSE})}

Bodies(kd) == BodiesOver(kd, Payloads)

\* The responses that differ in something the kind's handler reads.
ResponsesOver(kd, lists) ==
  {Rejected, BadJson} \cup (IF ChecksOk(kd) THEN {HttpFail} ELSE {})
  \cup BodiesOver(kd, lists)

Responses(kd) == ResponsesOver(kd, Payloads)

----------------------------------------------------------------------------
(* What a handler does with a response: the try / catch of each fetch      *)
(* function, as [fail, write, snap, msg]: whether the cycle failed,        *)
(* whether it calls the result's setter, with what, and the error message. *)

Success(snap) == [fail |-> FALSE, write |-> TRUE, snap |-> snap, msg |-> NoError]
\* catch (err) { setError(err.message) }: the result is left alone.
Failure(msg) == [fail |-> TRUE, write |-> FALSE, snap |-> EmptySnap, msg |-> msg]
\* catch / else that calls the result's setter with the blank value.
Blanked(snap) == [fail |-> TRUE, write |-> TRUE, snap |-> snap, msg |-> NoError]

\* throw new Error(data.error?.message || 'Invalid response format')
FormatMsg(r) == IF r.msg THEN MsgServer ELSE MsgFormat

\* useBusArrivals.fetchArrivals / useBusPositions.fetchPositions (hooks.js):
\* the two differ in the list field's name and in the non-2xx message.
ListOutcome(r, httpMsg) ==
  IF r.net = "reject" THEN Failure(MsgNetwork)
  ELSE IF ~r.ok THEN Failure(httpMsg)
  ELSE IF r.json = "bad" THEN Failure(MsgSyntax)
  ELSE IF ~r.success THEN Failure(FormatMsg(r))
  ELSE IF r.data = "absent" THEN Failure(MsgType)
  ELSE IF r.data = "nofield" THEN Failure(FormatMsg(r))
  ELSE Success(Snap(r.list, <<>>))

\* A fetchArrivals that takes a body without `data` for an empty list.
ArrivalsOutcomeLenient(r) ==
  IF r.net = "resp" /\ r.ok /\ r.json = "body" /\ r.success
     /\ r.data = "absent"
  THEN Success(EmptySnap)
  ELSE ListOutcome(r, MsgHttpArrivals)

ArrivalsOutcome(r) == ListOutcome(r, MsgHttpArrivals)
PositionsOutcome(r) == ListOutcome(r, MsgHttpPositions)

\* data.data.arrivals.filter(arrival => arrival.serviceNo === serviceNumber)
FilteredArrivals(list, n) == SelectSeq(list, LAMBDA a : a.serviceNo = n)

\* A BusTracker.fetchArrivals that does not filter.
TrackerOutcomeUnfiltered(k, r) == ListOutcome(r, MsgHttpTracker)

\* BusTracker.fetchArrivals: as above, and the arrivals are filtered to the
\* closure's serviceNumber, k[1].
TrackerOutcome(k, r) ==
  LET o == ListOutcome(r, MsgHttpTracker)
  IN  IF o.fail THEN o
      ELSE Success(Snap(FilteredArrivals(r.list, k[1]), <<>>))

\* useNearbyStops.fetchNearbyStops (hooks.js): no `ok` test, no error state;
\* the else branch and the catch both call setStops([]).
NearbyOutcome(r) ==
  IF r.net = "reject" \/ r.json = "bad" THEN Blanked(EmptySnap)
  ELSE IF ~r.success THEN Blanked(EmptySnap)
  ELSE IF r.data = "absent" THEN Blanked(EmptySnap)
  ELSE IF r.data = "nofield" THEN Blanked(EmptySnap)
  ELSE Success(Snap(r.list, <<>>))

\* `x.data.features || []` of useBusRoute.
FeaturesOrEmpty(r) == IF r.data = "list" THEN r.list ELSE <<>>

\* useBusRoute.fetchRouteData (hooks.js): Promise.all of the route fetch r1
\* and the stops fetch r2; the else branch and the catch call
\* setRouteData(null).
RouteOutcome(r1, r2) ==
  IF r1.net = "reject" \/ r2.net = "reject" THEN Blanked(NullSnap)
  ELSE IF r1.json = "bad" \/ r2.json = "bad" THEN Blanked(NullSnap)
  ELSE IF ~(r1.success /\ r2.success) THEN Blanked(NullSnap)
  ELSE IF r1.data = "absent" \/ r2.data = "absent" THEN Blanked(NullSnap)
  ELSE Success(Snap(FeaturesOrEmpty(r1), FeaturesOrEmpty(r2)))

\* RouteVisualization.fetchRouteData: the geojson fetch r1 and, when r1 is
\* not ok, the plain fetch r2; `data` is "list" when data.routes holds the
\* service number (the list standing for the features built from it).
RouteVizResponse(r1, r2) == IF r1.net = "resp" /\ ~r1.ok THEN r2 ELSE r1

\* The try / catch over the response r that is read, features being what
\* the success branch builds.
RouteVizOutcomeOf(r, features) ==
  IF r.net = "reject" THEN Failure(MsgNetwork)
  ELSE IF ~r.ok THEN Failure(MsgHttpRoute)
  ELSE IF r.json = "bad" THEN Failure(MsgSyntax)
  ELSE IF r.success /\ r.data = "list" THEN Success(Snap(features, <<>>))
  ELSE Failure(MsgInvalidRoute)

RouteVizOutcome(r1, r2) ==
  LET r == RouteVizResponse(r1, r2)
  IN  RouteVizOutcomeOf(r, r.list)

\* Every outcome a cycle of each kind can have, over all responses.
ArrivalsOutcomes == {ArrivalsOutcome(r) : r \in Responses("arrivals")}
PositionsOutcomes == {PositionsOutcome(r) : r \in Responses("positions")}
NearbyOutcomes == {NearbyOutcome(r) : r \in Responses("nearby")}
RouteOutcomes ==
  {RouteOutcome(r1, r2) : r1 \in Responses("route"), r2 \in Responses("route")}
RouteVizOutcomes ==
  {RouteVizOutcome(r1, r2) :
     r1 \in Responses("routeviz"), r2 \in Responses("routeviz")}
TrackerOutcomes ==
  [k \in KeySpace("tracker") |->
     {TrackerOutcome(k, r) : r \in Responses("tracker")}]

\* Every outcome a request of kind kd with closure key k can have.
Outcomes(kd, k) ==
  CASE kd = "arrivals" -> ArrivalsOutcomes
    [] kd = "positions" -> PositionsOutcomes
    [] kd = "tracker" -> TrackerOutcomes[k]
    [] kd = "nearby" -> NearbyOutcomes
    [] kd = "route" -> RouteOutcomes
    [] kd = "routeviz" -> RouteVizOutcomes
    [] OTHER -> {}

----------------------------------------------------------------------------
(* The component instance *)

VARIABLES
  kind,        \* which hook / component this instance is
  mounted,     \* the instance is mounted
  key,         \* its key props, <<p1, p2>>
  autoRefresh, \* BusTracker's autoRefresh state
  snapshot,    \* the result state: arrivals, stops, routeData, positions
  loading,     \* loading / isLoading
  error,       \* error (NoError where the kind has none)
  status,      \* BusTracker's connectionStatus
  lastUpdate,  \* BusTracker's lastUpdate is set
  timer,       \* the intervals that are set, oldest first: each is the key
               \* its callback's closure holds
  inflight,    \* the requests awaiting their response, in issue order:
               \* each is the key its closure holds
  overtaken,   \* history: how many of the oldest requests in flight have
               \* seen a request issued after them write the result
  hadSuccess,  \* history: a cycle of this instance has succeeded
  ev,          \* history: the handler that ran last and what it did
  fn,          \* the normalizer or validator applied last on its own
  arg,         \* ... its input
  res,         \* ... its result
  subs,        \* two hook instances mounted in one page, each with its own
               \* props, state cells, intervals and requests
  actor,       \* history: the instance whose handler ran last
  busStops,    \* BusMap: the stop features shown as markers
  stopsPending, \* BusMap: the stops request of the mount effect is out
  arrivals,    \* BusMap: the arrivals object, stop code -> slot
  loads,       \* BusMap: the loadArrivals calls awaiting their response,
               \* in call order: each is [stopCode, n], n its call number
  batch,       \* history: the loadArrivals calls that have settled since
               \* none was last in flight, in settling order
  mapEv,       \* history: the BusMap handler that ran last
  trackerProps, \* BusTracker: <<serviceNumber, busStopCode>>
  trackerPoll, \* BusTracker: the cells of its arrivals poller
  trackerView, \* BusTracker: autoRefresh, routePath, routeStops, selectedBus
  routeReqs,   \* BusTracker: the fetchRouteData calls awaiting their
               \* response, each with the service number of its closure
               \* and the effect run that made it
  trackerEv    \* history: the BusTracker handler that ran last

vars == <<kind, mounted, key, autoRefresh, snapshot, loading, error, status,
          lastUpdate, timer, inflight, overtaken, hadSuccess, ev,
          fn, arg, res, subs, actor,
          busStops, stopsPending, arrivals, loads, batch, mapEv,
          trackerProps, trackerPoll, trackerView, routeReqs, trackerEv>>

\* The variables of the component instance, and those of a function applied
\* on its own.
instance == <<kind, mounted, key, autoRefresh, snapshot, loading, error,
              status, lastUpdate, timer, inflight, overtaken, hadSuccess, ev>>
applied == <<fn, arg, res>>
\* The variables of two hook instances side by side.
pair == <<subs, actor>>
\* The variables of a BusMap.
busmap == <<busStops, stopsPending, arrivals, loads, batch, mapEv>>
\* The variables of a whole BusTracker.
tracking == <<trackerProps, trackerPoll, trackerView, routeReqs, trackerEv>>

\* No interval is set; exactly one is set, for key k.
TimerOff == <<>>
TimerOn(k) == <<k>>

\* The hooks called side by side: useBusArrivals and useBusPositions.
PairKinds == <<"arrivals", "positions">>

\* The useState initial values.
InitialState(kd) ==
  [snapshot |-> InitialSnap(kd), loading |-> FALSE, error |-> NoError,
   status |-> "idle", lastUpdate |-> FALSE, timer |-> TimerOff,
   inflight |-> <<>>, overtaken |-> 0, hadSuccess |-> FALSE]

Cur ==
  [snapshot |-> snapshot, loading |-> loading, error |-> error,
   status |-> status, lastUpdate |-> lastUpdate, timer |-> timer,
   inflight |-> inflight, overtaken |-> overtaken, hadSuccess |-> hadSuccess]

\* op: the handler; issued: how many requests it issued; onError: whether
\* it started in the error state; for a resolved request of a mounted
\* instance: whether its result was written, whether its cycle failed,
\* whether its key was no longer the instance's key, whether a later request
\* had written before it.
Event(op, issued, onError, wrote, fail, stale, late) ==
  [op |-> op, issued |-> issued, onError |-> onError, wrote |-> wrote,
   fail |-> fail, stale |-> stale, late |-> late]

\* A handler that resolved no request.
Ran(op, h) ==
  Event(op, Len(h.inflight) - Len(inflight), mounted /\ error # NoError,
        FALSE, FALSE, FALSE, FALSE)

----------------------------------------------------------------------------
(* The fetch functions up to their await, and the effects *)

\* A stubbed cycle that reports no error.
StubCycleSilent(h) ==
  [h EXCEPT !.snapshot = EmptySnap, !.error = NoError, !.loading = FALSE]

\* useBusPositions of the stubbed hooks file: the whole cycle is synchronous,
\* there is no fetch.
StubCycle(h) ==
  [h EXCEPT !.snapshot = EmptySnap, !.error = MsgCapability,
            !.loading = FALSE]

\* setLoading(true); setError(null); setConnectionStatus('connecting');
\* fetch(...) with the closure's key k.
Begin(kd, h, k) ==
  IF kd = "positionsStub" THEN StubCycle(h)
  ELSE [h EXCEPT !.loading = TRUE,
                 !.error = IF HasError(kd) THEN NoError ELSE @,
                 !.status = IF kd = "tracker" THEN "connecting" ELSE @,
                 !.inflight = Append(@, k)]

\* Whether a call of the fetch function with closure key k gets past the
\* function's own guard: only BusTracker.fetchArrivals has one.
FetchGuard(kd, k) == kd = "tracker" => Present(kd, k)

\* A fetch function that gives up once the error state is set.
FetchUnlessError(kd, h, k) ==
  IF FetchGuard(kd, k) /\ h.error = NoError THEN Begin(kd, h, k) ELSE h

Fetch(kd, h, k) == IF FetchGuard(kd, k) THEN Begin(kd, h, k) ELSE h

\* Whether the effect gets past its guard: the hooks and RouteVisualization
\* return early on a missing key, BusTracker's effect has no guard.
EffectGuard(kd, k) == kd = "tracker" \/ Present(kd, k)

\* An effect that never ends with setInterval.
SetsNoInterval(kd, auto) == FALSE

\* Whether the effect ends with setInterval.
SetsInterval(kd, auto) == Polls(kd) /\ (kd = "tracker" => auto)

\* An effect that only sets the interval and leaves the first fetch to it.
RunEffectNoFetch(kd, h, k, auto) ==
  IF ~EffectGuard(kd, k) THEN h
  ELSE IF SetsInterval(kd, auto) THEN [h EXCEPT !.timer = @ \o TimerOn(k)]
  ELSE h

\* The effect body: fetch at once, then setInterval.
RunEffect(kd, h, k, auto) ==
  IF ~EffectGuard(kd, k) THEN h
  ELSE LET h1 == Fetch(kd, h, k)
       IN  IF SetsInterval(kd, auto)
           THEN [h1 EXCEPT !.timer = @ \o TimerOn(k)]
           ELSE h1

\* A cleanup that leaves the interval running.
NoCleanup(h) == h

\* The effect's cleanup, `() => clearInterval(interval)`: it exists when the
\* effect run it belongs to (the latest) set an interval, and clears that
\* one, the newest.
Cleanup(h) ==
  [h EXCEPT !.timer = IF @ = <<>> THEN @ ELSE SubSeq(@, 1, Len(@) - 1)]

\* A dependency changed: the old effect is cleaned up, the new one runs.
ReRunEffect(kd, h, k, auto) == RunEffect(kd, Cleanup(h), k, auto)

----------------------------------------------------------------------------
(* The continuation of a fetch function after its awaits *)

RemoveAt(q, i) == SubSeq(q, 1, i - 1) \o SubSeq(q, i + 1, Len(q))

\* The overtaken requests are the oldest ones: request i leaves the queue
\* and, if it wrote its response, every request before it is now overtaken.
OvertakenAfter(n, i, wrote) ==
  LET left == IF i <= n THEN n - 1 ELSE n
  IN  IF wrote /\ i - 1 > left THEN i - 1 ELSE left

\* The continuation without its finally block, setLoading(false) being the
\* last statement of the try block.
SettleWithoutFinally(kd, h, i, o) ==
  [h EXCEPT
     !.snapshot = IF o.write THEN o.snap ELSE @,
     !.error = IF HasError(kd) /\ o.fail THEN o.msg ELSE @,
     !.loading = IF o.fail THEN @ ELSE FALSE,
     !.status = IF kd # "tracker" THEN @
                ELSE IF o.fail THEN "error" ELSE "connected",
     !.lastUpdate = IF kd = "tracker" /\ ~o.fail THEN TRUE ELSE @,
     !.inflight = RemoveAt(@, i),
     !.overtaken = OvertakenAfter(@, i, o.write /\ ~o.fail),
     !.hadSuccess = @ \/ ~o.fail]

\* try { ... } catch { ... } finally { setLoading(false) } for request i with
\* outcome o.
Settle(kd, h, i, o) ==
  [h EXCEPT
     !.snapshot = IF o.write THEN o.snap ELSE @,
     !.error = IF HasError(kd) /\ o.fail THEN o.msg ELSE @,
     !.loading = FALSE,
     !.status = IF kd # "tracker" THEN @
                ELSE IF o.fail THEN "error" ELSE "connected",
     !.lastUpdate = IF kd = "tracker" /\ ~o.fail THEN TRUE ELSE @,
     !.inflight = RemoveAt(@, i),
     !.overtaken = OvertakenAfter(@, i, o.write /\ ~o.fail),
     !.hadSuccess = @ \/ ~o.fail]

\* The same for a request whose instance has unmounted: its state setters
\* do nothing.
SettleDead(h, i) == [h EXCEPT !.inflight = RemoveAt(@, i)]

----------------------------------------------------------------------------
(* Actions *)

Commit(h) ==
  /\ Len(h.inflight) <= MaxInFlight
  /\ Len(h.timer) <= MaxTimers
  /\ snapshot' = h.snapshot
  /\ loading' = h.loading
  /\ error' = h.error
  /\ status' = h.status
  /\ lastUpdate' = h.lastUpdate
  /\ timer' = h.timer
  /\ inflight' = h.inflight
  /\ overtaken' = h.overtaken
  /\ hadSuccess' = h.hadSuccess
  /\ UNCHANGED <<applied, pair, busmap, tracking>>

Init ==
  /\ kind \in Kinds
  /\ mounted = FALSE
  /\ key = NoKey
  /\ autoRefresh = TRUE
  /\ snapshot = InitialSnap(kind)
  /\ loading = FALSE
  /\ error = NoError
  /\ status = "idle"
  /\ lastUpdate = FALSE
  /\ timer = TimerOff
  /\ inflight = <<>>
  /\ overtaken = 0
  /\ hadSuccess = FALSE
  /\ ev = Event("init", 0, FALSE, FALSE, FALSE, FALSE, FALSE)
  /\ fn = "none"
  /\ arg = <<>>
  /\ res = <<>>
  /\ subs = [i \in 1 .. 2 |->
               [kind |-> PairKinds[i], mounted |-> FALSE, key |-> NoKey,
                last |-> "init", done |-> 0,
                state |-> InitialState(PairKinds[i])]]
  /\ actor = 0
  /\ busStops = <<>>
  /\ stopsPending = TRUE
  /\ arrivals = [c \in {} |-> <<>>]
  /\ loads = <<>>
  /\ batch = <<>>
  /\ mapEv = [op |-> "mount", stopCode |-> 0, wrote |-> FALSE,
              list |-> <<>>, before |-> [c \in {} |-> <<>>]]
  /\ trackerProps = NoKey
  /\ trackerPoll = InitialState("tracker")
  /\ trackerView = [autoRefresh |-> TRUE, routePath |-> <<>>,
                    routeStops |-> <<>>,
                    selectedBus |-> [null |-> TRUE]]
  /\ routeReqs = <<>>
  /\ trackerEv = [op |-> "init", routeIssued |-> 0, by |-> "none",
                  pathBefore |-> <<>>]

\* The instance mounts with props k: the first effect run.  (An instance
\* that has unmounted is gone; a later one starts from Init again.)
Mount ==
  \E k \in KeySpace(kind) :
    LET h == RunEffect(kind, InitialState(kind), k, TRUE)
    IN  /\ ev.op = "init"
        /\ mounted' = TRUE
        /\ key' = k
        /\ autoRefresh' = TRUE
        /\ Commit(h)
        /\ ev' = Ran("mount", h)
        /\ UNCHANGED kind

\* The instance unmounts: the cleanup runs; the requests stay in flight but
\* nothing of them is read any more.
Unmount ==
  LET h == [Cleanup(Cur) EXCEPT
              !.inflight = [j \in 1 .. Len(inflight) |-> NoKey],
              !.overtaken = 0]
  IN  /\ mounted
      /\ mounted' = FALSE
      /\ Commit(h)
      /\ ev' = Ran("unmount", h)
      /\ UNCHANGED <<kind, key, autoRefresh>>

\* The key props change (stop code, service number, position edited).
ChangeKey ==
  \E k \in KeySpace(kind) \ {key} :
    LET h == ReRunEffect(kind, Cur, k, autoRefresh)
    IN  /\ mounted
        /\ key' = k
        /\ Commit(h)
        /\ ev' = Ran("key", h)
        /\ UNCHANGED <<kind, mounted, autoRefresh>>

\* Another dependency of the effect changes (refreshInterval, radius,
\* apiBaseUrl, showStops): the effect re-runs with the same key.
ChangeOtherDep ==
  LET h == ReRunEffect(kind, Cur, key, autoRefresh)
  IN  /\ mounted
      /\ kind # "route"
      /\ Commit(h)
      /\ ev' = Ran("dep", h)
      /\ UNCHANGED <<kind, mounted, key, autoRefresh>>

\* An interval fires: the callback is the fetch function of the effect
\* that set the interval.
Tick ==
  \E t \in 1 .. Len(timer) :
    LET h == Fetch(kind, Cur, timer[t])
    IN  /\ Commit(h)
        /\ ev' = Ran("tick", h)
        /\ UNCHANGED <<kind, mounted, key, autoRefresh>>

\* BusTracker's Refresh button: rendered when both keys are present,
\* disabled while isLoading.
ManualRefresh ==
  LET h == Fetch(kind, Cur, key)
  IN  /\ kind = "tracker"
      /\ mounted
      /\ Present(kind, key)
      /\ ~loading
      /\ Commit(h)
      /\ ev' = Ran("refresh", h)
      /\ UNCHANGED <<kind, mounted, key, autoRefresh>>

\* BusTracker's auto-refresh checkbox: setAutoRefresh, the effect re-runs.
ToggleAutoRefresh ==
  LET h == ReRunEffect(kind, Cur, key, ~autoRefresh)
  IN  /\ kind = "tracker"
      /\ mounted
      /\ Present(kind, key)
      /\ autoRefresh' = ~autoRefresh
      /\ Commit(h)
      /\ ev' = Ran("toggle", h)
      /\ UNCHANGED <<kind, mounted, key>>

\* The response of request i arrives and the fetch function runs on.
Resolve ==
  \E i \in 1 .. Len(inflight) :
    \E o \in Outcomes(kind, inflight[i]) :
      LET h == Settle(kind, Cur, i, o)
      IN  /\ mounted
          /\ Commit(h)
          /\ ev' = Event("resolve", 0, FALSE, o.write, o.fail,
                         inflight[i] # key, i <= overtaken)
          /\ UNCHANGED <<kind, mounted, key, autoRefresh>>

\* The same after the instance has unmounted.
ResolveUnmounted ==
  \E i \in 1 .. Len(inflight) :
    LET h == SettleDead(Cur, i)
    IN  /\ ~mounted
        /\ Commit(h)
        /\ ev' = Event("resolve", 0, FALSE, FALSE, FALSE, FALSE, FALSE)
        /\ UNCHANGED <<kind, mounted, key, autoRefresh>>

Next ==
  \/ Mount
  \/ Unmount
  \/ ChangeKey
  \/ ChangeOtherDep
  \/ Tick
  \/ ManualRefresh
  \/ ToggleAutoRefresh
  \/ Resolve
  \/ ResolveUnmounted

Spec == Init /\ [][Next]_vars

\* Every request is answered or fails in the end: fetch() settles, and the
\* continuation of a settled promise is run by the event loop.
FairSpec == Spec /\ WF_vars(Resolve) /\ WF_vars(ResolveUnmounted)

----------------------------------------------------------------------------
(* What RouteVisualization renders: the first of the loading panel, the    *)
(* error panel and the "no route data" panel whose test passes is          *)
(* returned alone; the map with the route is rendered only past all three. *)

View(panel, route, message) ==
  [panel |-> panel, route |-> route, message |-> message]

\* if (loading) return ...; if (error) return ...;
\* if (!routeData || routeData.features.length === 0) return ...; return map
RouteVizView(h) ==
  IF h.loading THEN View("loading", NullSnap, NoError)
  ELSE IF h.error # NoError THEN View("error", NullSnap, h.error)
  ELSE IF h.snapshot = NullSnap \/ h.snapshot.a = <<>>
  THEN View("noRoute", NullSnap, NoError)
  ELSE View("map", h.snapshot, NoError)

----------------------------------------------------------------------------
(* Two hook instances in one page.  Each call of a hook has its own        *)
(* useState cells and its own closures; the hooks files hold no            *)
(* module-level state.  The handlers are those of the single instance;     *)
(* the props of a mounted instance stay as they are.                       *)

\* State cells shared by every instance, as module-level variables would be.
SharedCells(i) == 1

\* The cells a handler of instance i reads and writes: those of its own
\* hook call.
Cells(i) == i

\* A handler of instance i ran as op and left the instance as h; a completed
\* cycle is counted, up to MaxCycles.  The histories of the single instance
\* are not kept here.
SubCommit(i, op, h, isMounted, k) ==
  /\ Len(h.inflight) <= MaxInFlight
  /\ Len(h.timer) <= MaxTimers
  /\ subs' = [subs EXCEPT
                ![Cells(i)] =
                  [kind |-> subs[i].kind, mounted |-> isMounted, key |-> k,
                   last |-> op,
                   done |-> IF op = "resolve" /\ subs[i].done < MaxCycles
                            THEN subs[i].done + 1 ELSE subs[i].done,
                   state |-> [h EXCEPT !.overtaken = 0,
                                       !.hadSuccess = FALSE]]]
  /\ actor' = i
  /\ UNCHANGED <<instance, applied, busmap, tracking>>

SubMount(i) ==
  \E k \in KeySpace(subs[i].kind) :
    /\ subs[i].last = "init"
    /\ SubCommit(i, "mount",
                 RunEffect(subs[i].kind, InitialState(subs[i].kind), k, TRUE),
                 TRUE, k)

SubUnmount(i) ==
  LET cur == subs[Cells(i)]
  IN  /\ cur.mounted
      /\ SubCommit(i, "unmount",
                   [Cleanup(cur.state) EXCEPT
                      !.inflight = [j \in 1 .. Len(@) |-> NoKey],
                      !.overtaken = 0],
                   FALSE, cur.key)

\* An interval of instance i fires.
SubTick(i) ==
  LET cur == subs[Cells(i)]
  IN  \E t \in 1 .. Len(cur.state.timer) :
        SubCommit(i, "tick", Fetch(cur.kind, cur.state, cur.state.timer[t]),
                  cur.mounted, cur.key)

\* The response of a request of instance i arrives.
SubResolve(i) ==
  LET cur == subs[Cells(i)]
  IN  \E r \in 1 .. Len(cur.state.inflight) :
        IF cur.mounted
        THEN \E o \in Outcomes(cur.kind, cur.state.inflight[r]) :
               SubCommit(i, "resolve", Settle(cur.kind, cur.state, r, o),
                         TRUE, cur.key)
        ELSE SubCommit(i, "resolve", SettleDead(cur.state, r),
                       FALSE, cur.key)

PairInit == Init /\ kind = "arrivals"

PairNext ==
  \E i \in 1 .. 2 :
    \/ SubMount(i)
    \/ SubUnmount(i)
    \/ SubTick(i)
    \/ SubResolve(i)

PairSpec == PairInit /\ [][PairNext]_vars

----------------------------------------------------------------------------
(* JavaScript values, as far as the validators tell them apart.            *)
(* [t, v, nan]: t is the typeof tag ("null" for null), v the number the    *)
(* value is or converts to (ToNumber), nan whether that conversion is NaN. *)
(* Degrees are written in hundredths: 103.8 is 10380.                      *)

JsUndefined == [t |-> "undefined", v |-> 0, nan |-> TRUE]
JsNull == [t |-> "null", v |-> 0, nan |-> FALSE]
JsNaN == [t |-> "number", v |-> 0, nan |-> TRUE]
JsNum(n) == [t |-> "number", v |-> n, nan |-> FALSE]
\* Infinity, the number above every other: what JSON.parse reads from a
\* literal beyond the double range (1e999).  typeof Infinity is 'number',
\* isNaN(Infinity) is false.
Infinity == 1000000
JsInfinity == JsNum(Infinity)
\* A string that reads as the number n ('1.35', '' reading as 0), and one
\* that reads as no number ('abc').
JsNumStr(n) == [t |-> "string", v |-> n, nan |-> FALSE]
JsText == [t |-> "string", v |-> 0, nan |-> TRUE]
JsBool(b) == [t |-> "boolean", v |-> IF b THEN 1 ELSE 0, nan |-> FALSE]
\* [] converts to 0, {} to NaN.
JsEmptyArray == [t |-> "object", v |-> 0, nan |-> FALSE]
JsObject == [t |-> "object", v |-> 0, nan |-> TRUE]

JsValues ==
  {JsUndefined, JsNull, JsNaN, JsInfinity, JsText, JsEmptyArray, JsObject}
  \cup {JsNum(n) : n \in {0, 100, 135, 10380}}
  \cup {JsNumStr(n) : n \in {0, 135}}
  \cup {JsBool(b) : b \in BOOLEAN}

\* x != null
NotNullish(x) == x.t \notin {"null", "undefined"}
\* isNaN(x): ToNumber, then the NaN test
IsNaN(x) == x.nan
\* x !== 0
NotStrictZero(x) == ~(x.t = "number" /\ ~x.nan /\ x.v = 0)
\* typeof x === 'number'
TypeofNumber(x) == x.t = "number"

\* isValidCoordinate without the typeof test.
IsValidCoordinateUntyped(lat, lng) ==
  /\ NotNullish(lat) /\ NotNullish(lng)
  /\ ~IsNaN(lat) /\ ~IsNaN(lng)
  /\ NotStrictZero(lat) /\ NotStrictZero(lng)

\* utils isValidCoordinate(lat, lng)
IsValidCoordinate(lat, lng) ==
  /\ NotNullish(lat) /\ NotNullish(lng)
  /\ ~IsNaN(lat) /\ ~IsNaN(lng)
  /\ NotStrictZero(lat) /\ NotStrictZero(lng)
  /\ TypeofNumber(lat) /\ TypeofNumber(lng)

\* Array.isArray(x): an array is [array, items]; [array |-> FALSE] stands
\* for null where a field is either an array or null.
IsArray(x) == "array" \in DOMAIN x /\ x.array

\* ToBoolean(x), as && applies it: null, undefined, NaN, 0, '' and false are
\* falsy, every array and object truthy.
Truthy(x) ==
  IF "array" \in DOMAIN x THEN x.array
  ELSE /\ x.t \notin {"undefined", "null"}
       /\ ~(x.t = "number" /\ (x.nan \/ x.v = 0))
       /\ ~(x.t = "string" /\ ~x.nan /\ x.v = 0)
       /\ ~(x.t = "boolean" /\ x.v = 0)

----------------------------------------------------------------------------
(* Route objects and the features built from them.                         *)
(* routeInfo = data.routes[serviceNumber]: polylines and stops are each    *)
(* [array, items], array saying whether the field is an array.  A polyline *)
(* is [decodes, id]: whether polyline.decode returns or throws, and its    *)
(* position; <<id>> stands for the coordinates decoded from polyline id.   *)
(* A stop sequence is [id], its position.                                  *)

NoArray == [array |-> FALSE, items |-> <<>>]
ArrayOf(items) == [array |-> TRUE, items |-> items]

PolylineFields ==
  {NoArray} \cup
  UNION {{ArrayOf([i \in 1 .. n |-> [decodes |-> f[i], id |-> i]]) :
            f \in [1 .. n -> BOOLEAN]} : n \in 0 .. MaxList}

StopsFields ==
  {NoArray} \cup {ArrayOf([i \in 1 .. n |-> [id |-> i]]) : n \in 0 .. MaxList}

RouteInfos == [polylines : PolylineFields, stops : StopsFields]

\* A feature: properties.pattern, geometry.coordinates, properties.stops (0
\* where the feature has none).
Feature(pattern, coordinates, stops) ==
  [pattern |-> pattern, coordinates |-> coordinates, stops |-> stops]

\* The polylines loop of RouteVisualization: forEach((polylineString, index)
\* => try { features.push({pattern: index, coordinates: decode(...)}) }
\* catch { console.error }).
DecodedFeatures(polylines) ==
  LET decoded == SelectSeq(polylines.items, LAMBDA p : p.decodes)
  IN  [i \in 1 .. Len(decoded) |->
         Feature(decoded[i].id - 1, <<decoded[i].id>>, 0)]

\* The stops loop: one feature per stop sequence, coordinates [].
StopSequenceFeatures(stops) ==
  [i \in 1 .. Len(stops.items) |-> Feature(i - 1, <<>>, stops.items[i].id)]

\* A polylines loop that gives up the whole route on the first polyline
\* that fails to decode.
RouteVizFeaturesAllOrNothing(info) ==
  IF \E i \in 1 .. Len(info.polylines.items) :
       ~info.polylines.items[i].decodes
  THEN <<>>
  ELSE DecodedFeatures(info.polylines)

\* The features with the stop sequences added to the decoded polylines
\* whenever the route object has them.
RouteVizFeaturesWithStops(info) ==
  DecodedFeatures(info.polylines)
    \o (IF info.stops.array THEN StopSequenceFeatures(info.stops) ELSE <<>>)

\* The features RouteVisualization.fetchRouteData builds from routeInfo.
RouteVizFeatures(info) ==
  LET features == DecodedFeatures(info.polylines)
  IN  IF features = <<>> /\ info.stops.array
      THEN StopSequenceFeatures(info.stops)
      ELSE features

\* RouteVisualization.fetchRouteData over a response carrying a route object.
RouteVizInfoOutcome(r) ==
  RouteVizOutcomeOf(r, IF r.data = "list" THEN RouteVizFeatures(r.list)
                       ELSE <<>>)

\* The polylines loop of BusTracker.fetchRouteData: paths.push(coordinates).
TrackerPaths(info) ==
  LET decoded == SelectSeq(info.polylines.items, LAMBDA p : p.decodes)
  IN  [i \in 1 .. Len(decoded) |-> <<decoded[i].id>>]

\* BusTracker.fetchRouteData over the route path prev: setRoutePath is
\* called only when the response is ok and holds the service number; the
\* catch only logs; there is no error state.
TrackerRoutePath(prev, r) ==
  IF r.net = "resp" /\ r.ok /\ r.json = "body" /\ r.success
     /\ r.data = "list"
  THEN TrackerPaths(r.list)
  ELSE prev

\* useBusRoute.fetchRouteData of the alternate hooks file: one feature with
\* pattern 0 and coordinates [] whenever the response holds the service
\* number; setRouteData(null) otherwise and in the catch.
AltRouteOutcome(r) ==
  IF r.net = "reject" \/ r.json = "bad" THEN Blanked(NullSnap)
  ELSE IF r.success /\ r.data = "list"
  THEN Success(Snap(<<Feature(0, <<>>, 0)>>, <<>>))
  ELSE Blanked(NullSnap)

----------------------------------------------------------------------------
(* Stop records and the features built from them.                          *)
(* data.stops maps a stop code to [lng, lat, name, road]; it is written as *)
(* the list of its [code, entry] pairs in Object.entries order, the codes  *)
(* distinct.  An entry is [array, items]; NoArray stands for null.         *)

\* stopData[i - 1]: undefined past the end of the array.
Elem(sd, i) == IF i <= Len(sd.items) THEN sd.items[i] ELSE JsUndefined

\* isValidStopData asking for two elements only.
IsValidStopDataOfPair(sd) ==
  /\ Truthy(sd)
  /\ IsArray(sd)
  /\ Len(sd.items) >= 2
  /\ IsValidCoordinate(Elem(sd, 1), Elem(sd, 2))

\* utils isValidStopData(stopData), as its callers read it: whether the
\* value returned is truthy.
IsValidStopData(sd) ==
  /\ Truthy(sd)
  /\ IsArray(sd)
  /\ Len(sd.items) >= 4
  /\ IsValidCoordinate(Elem(sd, 1), Elem(sd, 2))

\* The coordinate pairs of the stop records: valid, and one coordinate zero,
\* NaN or a string.
StopCoordinates ==
  LET odd == {JsNum(0), JsNaN, JsNumStr(135)}
  IN  {<<JsNum(10380), JsNum(135)>>}
      \cup {<<c, JsNum(135)>> : c \in odd}
      \cup {<<JsNum(10380), c>> : c \in odd}

StopEntries ==
  {NoArray}
  \cup {ArrayOf(c) : c \in StopCoordinates}
  \cup {ArrayOf(c \o <<JsText, JsText>>) : c \in StopCoordinates}

StopMappings ==
  UNION {{[i \in 1 .. n |-> [code |-> c[i], entry |-> e[i]]] :
            c \in {d \in [1 .. n -> 1 .. MaxList] :
                     \A i \in 1 .. n : \A j \in 1 .. n : d[i] = d[j] => i = j},
            e \in [1 .. n -> StopEntries]} : n \in 0 .. MaxList}

\* ([code, stopData]) => ({type: 'Feature', properties: {code, name, road,
\* services: []}, geometry: {type: 'Point', coordinates}})
StopFeature(code, sd) ==
  [code |-> code, name |-> Elem(sd, 3), road |-> Elem(sd, 4),
   services |-> <<>>, coordinates |-> <<Elem(sd, 1), Elem(sd, 2)>>]

StopFeatures(stops) ==
  [i \in 1 .. Len(stops) |-> StopFeature(stops[i].code, stops[i].entry)]

\* useNearbyStops.fetchNearbyStops of the alternate hooks file: every entry
\* is mapped, unvalidated; reading stopData[2] of a null entry throws, and
\* the catch, like the else branch, calls setStops([]).
AltNearbyOutcome(r) ==
  IF r.net = "reject" \/ r.json = "bad" THEN Blanked(EmptySnap)
  ELSE IF ~r.success THEN Blanked(EmptySnap)
  ELSE IF r.data # "list" THEN Blanked(EmptySnap)
  ELSE IF \E i \in 1 .. Len(r.list) : ~r.list[i].entry.array
  THEN Blanked(EmptySnap)
  ELSE Success(Snap(StopFeatures(r.list), <<>>))

\* BusMap's stops effect: the entries are filtered with isValidStopData and
\* mapped; the else branch and the catch only log.
BusMapStops(prev, r) ==
  IF r.net = "resp" /\ r.json = "body" /\ r.success /\ r.data = "list"
  THEN StopFeatures(SelectSeq(r.list, LAMBDA p : IsValidStopData(p.entry)))
  ELSE prev

\* The same stops in the two response shapes: as the data.stops mapping and
\* as the data.features list.
StopsShape(S) ==
  [i \in 1 .. Len(S) |->
     [code |-> S[i].code,
      entry |-> ArrayOf(S[i].coordinates \o <<JsText, JsText>>)]]
FeaturesShape(S) == StopFeatures(StopsShape(S))

\* The body a normalizer that reads data[field] sees when the response has
\* the given shape: the other field is not there.
ShapedBody(shape, field, S) ==
  IF shape # field THEN Body(TRUE, "nofield", <<>>, FALSE)
  ELSE Body(TRUE, "list",
            IF shape = "stops" THEN StopsShape(S) ELSE FeaturesShape(S),
            FALSE)

\* The stop list of each nearby-stops hook (hooks.js reads data.features,
\* the alternate file data.stops) for a response of the given shape.
NearbyStopsOf(hook, shape, S) ==
  IF hook = "features"
  THEN NearbyOutcome(ShapedBody(shape, "features", S)).snap.a
  ELSE AltNearbyOutcome(ShapedBody(shape, "stops", S)).snap.a

\* Lists of valid stops with distinct codes.
ValidStops ==
  {[i \in 1 .. n |-> [code |-> i, coordinates |-> <<JsNum(10380), JsNum(135)>>]]
     : n \in 0 .. MaxList}

----------------------------------------------------------------------------
(* The utils on arbitrary arguments.  An argument is a scalar of JsValues  *)
(* or an array ArrayOf(items); a coordinate pair is an array of scalars.   *)
(* A call returns a value or throws a TypeError.                           *)

Returns(v) == [throws |-> FALSE, value |-> v]
Throws == [throws |-> TRUE, value |-> JsUndefined]

\* coord => coord && Array.isArray(coord) && coord.length >= 2 &&
\*          isValidCoordinate(coord[0], coord[1])
KeepsCoordinate(coord) ==
  /\ Truthy(coord)
  /\ IsArray(coord)
  /\ Len(coord.items) >= 2
  /\ IsValidCoordinate(Elem(coord, 1), Elem(coord, 2))

\* filterValidCoordinates keeping every array of two or more elements.
FilterValidCoordinatesUnvalidated(coordinates) ==
  IF ~IsArray(coordinates) THEN Throws
  ELSE Returns(ArrayOf(SelectSeq(coordinates.items,
         LAMBDA c : Truthy(c) /\ IsArray(c) /\ Len(c.items) >= 2)))

\* utils filterValidCoordinates(coordinates): coordinates.filter is read
\* first, which throws on null and undefined and is not a function on a
\* number, a string or a plain object.
FilterValidCoordinates(coordinates) ==
  IF ~IsArray(coordinates) THEN Throws
  ELSE Returns(ArrayOf(SelectSeq(coordinates.items, KeepsCoordinate)))

\* defaultBounds = [[1.2, 103.6], [1.5, 104.0]]
DefaultBounds == <<<<120, 10360>>, <<150, 10400>>>>

\* Math.min(...xs), Math.max(...xs) of a non-empty set of numbers
Min(xs) == CHOOSE m \in xs : \A x \in xs : m <= x
Max(xs) == CHOOSE m \in xs : \A x \in xs : x <= m

\* [[min lats, min lngs], [max lats, max lngs]] of a non-empty list of
\* pairs, lats the coord[1] and lngs the coord[0] of the pairs.
BoundsOf(coords) ==
  LET lats == {coords[i].items[2].v : i \in 1 .. Len(coords)}
      lngs == {coords[i].items[1].v : i \in 1 .. Len(coords)}
  IN  <<<<Min(lats), Min(lngs)>>, <<Max(lats), Max(lngs)>>>>

\* calculateBounds taking its minima and maxima over every array of two or
\* more elements.
CalculateBoundsUnvalidated(coordinates) ==
  LET validCoords == FilterValidCoordinatesUnvalidated(coordinates)
  IN  IF validCoords.throws THEN Throws
      ELSE IF Len(validCoords.value.items) = 0 THEN Returns(DefaultBounds)
      ELSE Returns(BoundsOf(validCoords.value.items))

\* utils calculateBounds(coordinates), defaultBounds left to its default
CalculateBounds(coordinates) ==
  LET validCoords == FilterValidCoordinates(coordinates)
  IN  IF validCoords.throws THEN Throws
      ELSE IF Len(validCoords.value.items) = 0 THEN Returns(DefaultBounds)
      ELSE Returns(BoundsOf(validCoords.value.items))

\* The value isValidStopData returns: a && b && ... is its first falsy
\* operand, so a falsy stopData is returned as it is.
IsValidStopDataResult(stopData) ==
  IF Truthy(stopData) THEN JsBool(IsValidStopData(stopData)) ELSE stopData

\* A bus object with the given latitude and longitude properties.
BusObject(latitude, longitude) ==
  [t |-> "object", v |-> 0, nan |-> TRUE,
   latitude |-> latitude, longitude |-> longitude]

\* bus.latitude, bus.longitude: undefined on a value without the property.
Prop(bus, name) == IF name \in DOMAIN bus THEN bus[name] ELSE JsUndefined

\* utils isValidBusData(bus): the value returned.
IsValidBusDataResult(bus) ==
  IF Truthy(bus)
  THEN JsBool(IsValidCoordinate(Prop(bus, "latitude"), Prop(bus, "longitude")))
  ELSE bus

\* Values that are no array and no bus object, falsy and truthy.
Scalars ==
  {JsNull, JsUndefined, JsNaN, JsNum(0), JsNumStr(0), JsBool(FALSE),
   JsNum(100), JsText, JsBool(TRUE), JsObject}

\* The arguments of isValidStopData: the scalars, and the arrays of 0 to
\* MaxSlots elements [lng, lat, name, road, ...] with any value for lng and
\* lat and strings or nulls after them.
StopDataArguments ==
  Scalars
  \cup {ArrayOf(SubSeq(<<a, b>> \o [i \in 1 .. MaxSlots |-> x], 1, n)) :
          a \in JsValues, b \in JsValues, x \in {JsText, JsNull},
          n \in 0 .. MaxSlots}

\* The arguments of isValidBusData: the scalars, an array, and the objects
\* with any value for latitude and longitude (undefined: property absent).
BusArguments ==
  Scalars \cup {ArrayOf(<<JsNum(135), JsNum(10380)>>)}
  \cup {BusObject(a, b) : a \in JsValues, b \in JsValues}

\* The entries of a coordinates argument: two valid (lng, lat) pairs, pairs
\* with a zero, NaN, infinite or numeric-string component, arrays of length
\* 0, 1 and 3, and entries that are no array.
CoordinateEntries ==
  {JsNull, JsUndefined, JsText}
  \cup {ArrayOf(<<>>), ArrayOf(<<JsNum(10380)>>),
        ArrayOf(<<JsNum(10380), JsNum(130), JsNum(7)>>)}
  \cup {ArrayOf(<<a, b>>) :
          <<a, b>> \in {<<JsNum(10380), JsNum(130)>>,
                        <<JsNum(10390), JsNum(140)>>,
                        <<JsNum(0), JsNum(0)>>,
                        <<JsNaN, JsNum(130)>>,
                        <<JsInfinity, JsNum(130)>>,
                        <<JsNum(10380), JsNumStr(135)>>}}

\* The arguments: arrays of such entries, and values that are no array.
CoordinateArguments ==
  {JsNull, JsUndefined, JsObject, JsText, JsNum(100)}
  \cup {ArrayOf(c) : c \in SeqsUpTo(CoordinateEntries, MaxCoords)}

----------------------------------------------------------------------------
(* Decoded route geometry.  An encoded polyline is written as the list of  *)
(* the points [lat, lon] it encodes (hundredths of a degree).              *)
(* polyline.decode of @mapbox/polyline returns one [latitude, longitude]   *)
(* array per point, the order BusTracker hands to Leaflet's Polyline as    *)
(* positions.                                                              *)

GeoPoints ==
  {[lat |-> 130, lon |-> 10380], [lat |-> 140, lon |-> 10390],
   [lat |-> 135, lon |-> 10370]}

\* The polylines of a route: 1 to MaxList of them, each of 1 to MaxPoints
\* points.
EncodedPolylines == SeqsUpTo(GeoPoints, MaxPoints) \ {<<>>}
EncodedRoutes == SeqsUpTo(EncodedPolylines, MaxList) \ {<<>>}

\* polyline.decode(polylineString)
PolylineDecode(line) ==
  [i \in 1 .. Len(line) |-> ArrayOf(<<JsNum(line[i].lat), JsNum(line[i].lon)>>)]

\* routeData.features of RouteVisualization for polylines that all decode:
\* geometry.coordinates is what decode returned, pattern the index.
RouteVizGeometry(route) ==
  [i \in 1 .. Len(route) |->
     [pattern |-> i - 1, coordinates |-> PolylineDecode(route[i])]]

RECURSIVE FlatMap(_)
\* routeData.features.flatMap(feature => feature.geometry.coordinates)
FlatMap(features) ==
  IF features = <<>> THEN <<>>
  ELSE Head(features).coordinates \o FlatMap(Tail(features))

\* const bounds = calculateBounds(allCoordinates)
RouteVizBounds(features) == CalculateBounds(ArrayOf(FlatMap(features)))

----------------------------------------------------------------------------
(* The forwarding proxy (api/proxy.js).  A request is [method, url], url   *)
(* being "none" (no url query parameter), "bad" (a string new URL rejects) *)
(* or "ok"; the upstream either does not answer (fetch rejects) or answers *)
(* with a status and a body that parses as JSON or does not ("text" for    *)
(* HTML or plain text, "empty" for no body).  The reply is the headers set *)
(* on res, the status and what the body is.                                *)

CorsHeaders ==
  {[name |-> "Access-Control-Allow-Origin", value |-> "*"],
   [name |-> "Access-Control-Allow-Methods",
    value |-> "GET, POST, PUT, DELETE, OPTIONS"],
   [name |-> "Access-Control-Allow-Headers",
    value |-> "Content-Type, Authorization"]}

ProxyRequests ==
  [method : {"OPTIONS", "GET", "POST"}, url : {"none", "bad", "ok"}]

NoAnswer == [answered |-> FALSE, status |-> 0, body |-> "empty"]
UpstreamAnswers ==
  {NoAnswer}
  \cup [answered : {TRUE}, status : {200, 204, 404, 500, 502},
        body : {"json", "text", "empty"}]

Reply(code, content) ==
  [headers |-> CorsHeaders, status |-> code, body |-> content]

\* handler(req, res): the CORS headers are set before anything is sent;
\* OPTIONS is answered at once; a missing url is a 400; new URL, fetch and
\* response.json() are inside the try, and the catch answers 500.
ProxyHandler(req, up) ==
  IF req.method = "OPTIONS" THEN Reply(200, "empty")
  ELSE IF req.url = "none" THEN Reply(400, "Missing URL parameter")
  ELSE IF req.url = "bad" THEN Reply(500, "Proxy error")
  ELSE IF ~up.answered THEN Reply(500, "Proxy error")
  ELSE IF up.body # "json" THEN Reply(500, "Proxy error")
  ELSE Reply(up.status, "data")

\* Whether the handler calls fetch: not for a preflight and not without a
\* url that new URL accepts.
Forwards(req) == req.method # "OPTIONS" /\ req.url = "ok"

----------------------------------------------------------------------------
(* The normalizers and validators applied on their own: no component is    *)
(* mounted, and a behaviour is one call of one function on one input (the  *)
(* functions keep nothing between calls), made while fn is "none".         *)

Applied(f, a, r) ==
  /\ fn' = f
  /\ arg' = a
  /\ res' = r
  /\ UNCHANGED <<instance, pair, busmap, tracking>>

\* The instance of kind kd showing result prev, its request for key k out.
Awaiting(kd, prev, k) ==
  Begin(kd, [InitialState(kd) EXCEPT !.snapshot = prev], k)

\* One cycle of useBusArrivals.fetchArrivals over the result prev.
ApplyFetchArrivals ==
  /\ fn = "none"
  /\ \E prev \in TaggedLists, r \in ResponsesOver("arrivals", TaggedLists) :
    Applied("fetchArrivals", [prev |-> Snap(prev, <<>>), r |-> r],
            Settle("arrivals", Awaiting("arrivals", Snap(prev, <<>>), <<1, 0>>),
                   1, ArrivalsOutcome(r)))

\* One cycle of BusTracker.fetchArrivals for the key k over the result prev.
ApplyTrackerFetchArrivals ==
  /\ fn = "none"
  /\ \E k \in {j \in KeySpace("tracker") : Present("tracker", j)},
     prev \in TaggedLists, r \in ResponsesOver("tracker", TaggedLists) :
    Applied("BusTracker.fetchArrivals",
            [key |-> k, prev |-> Snap(prev, <<>>), r |-> r],
            Settle("tracker", Awaiting("tracker", Snap(prev, <<>>), k),
                   1, TrackerOutcome(k, r)))

\* The routes that can be on show before a route cycle: none, or one pattern.
ShownRoutes == {NullSnap, Snap(<<Feature(0, <<1>>, 0)>>, <<>>)}

\* One cycle of RouteVisualization.fetchRouteData over the route prev: the
\* geojson request r1 and, when that is not ok, the plain request r2.
ApplyRouteVizFetchRouteData ==
  /\ fn = "none"
  /\ \E prev \in ShownRoutes, r2 \in ResponsesOver("routeviz", RouteInfos) :
    \E r1 \in {HttpFail, r2} :
      LET r == RouteVizResponse(r1, r2)
      IN  Applied("RouteVisualization.fetchRouteData",
                  [prev |-> prev, r1 |-> r1, r |-> r],
                  Settle("routeviz", Awaiting("routeviz", prev, <<1, 0>>),
                         1, RouteVizInfoOutcome(r)))

\* One call of BusTracker.fetchRouteData over the route path prev.
ApplyTrackerFetchRouteData ==
  /\ fn = "none"
  /\ \E prev \in {<<>>, <<<<1>>>>},
     r \in ResponsesOver("routeviz", RouteInfos) :
    Applied("BusTracker.fetchRouteData", [prev |-> Snap(prev, <<>>), r |-> r],
            [snapshot |-> Snap(TrackerRoutePath(prev, r), <<>>),
             error |-> NoError])

\* One cycle of the alternate useBusRoute.fetchRouteData over the route prev.
ApplyAltFetchRouteData ==
  /\ fn = "none"
  /\ \E prev \in ShownRoutes, r \in ResponsesOver("route", RouteInfos) :
    Applied("useBusRoute.fetchRouteData", [prev |-> prev, r |-> r],
            Settle("route", Awaiting("route", prev, <<1, 0>>),
                   1, AltRouteOutcome(r)))

\* One cycle of the alternate useNearbyStops.fetchNearbyStops.
ApplyAltFetchNearbyStops ==
  /\ fn = "none"
  /\ \E r \in ResponsesOver("nearby", StopMappings) :
    Applied("useNearbyStops.fetchNearbyStops", [r |-> r],
            Settle("nearby", Awaiting("nearby", EmptySnap, <<1, 1>>),
                   1, AltNearbyOutcome(r)))

\* BusMap's stops effect, from no stops shown.
ApplyBusMapStops ==
  /\ fn = "none"
  /\ \E r \in ResponsesOver("nearby", StopMappings) :
    Applied("BusMap.stops", [r |-> r],
            [snapshot |-> Snap(BusMapStops(<<>>, r), <<>>),
             error |-> NoError])

\* Either nearby-stops hook, given the same stops in each response shape.
ApplyNearbyShapes ==
  /\ fn = "none"
  /\ \E hook \in {"features", "stops"}, S \in ValidStops :
    Applied("fetchNearbyStops", [hook |-> hook, stops |-> S],
            [fromStops |-> NearbyStopsOf(hook, "stops", S),
             fromFeatures |-> NearbyStopsOf(hook, "features", S)])

ApplyIsValidCoordinate ==
  /\ fn = "none"
  /\ \E a \in JsValues, b \in JsValues :
    Applied("isValidCoordinate", <<a, b>>, IsValidCoordinate(a, b))

\* filterValidCoordinates, and filterValidCoordinates of its result.
ApplyFilterValidCoordinates ==
  /\ fn = "none"
  /\ \E c \in CoordinateArguments :
    LET once == FilterValidCoordinates(c)
    IN  Applied("filterValidCoordinates", c,
                [once |-> once,
                 twice |-> IF once.throws THEN once
                           ELSE FilterValidCoordinates(once.value)])

\* calculateBounds, and calculateBounds of the filtered argument.
ApplyCalculateBounds ==
  /\ fn = "none"
  /\ \E c \in CoordinateArguments :
    LET filtered == FilterValidCoordinates(c)
    IN  Applied("calculateBounds", c,
                [bounds |-> CalculateBounds(c),
                 ofFiltered |-> IF filtered.throws THEN filtered
                                ELSE CalculateBounds(filtered.value)])

ApplyIsValidStopData ==
  /\ fn = "none"
  /\ \E sd \in StopDataArguments :
    Applied("isValidStopData", sd, IsValidStopDataResult(sd))

ApplyIsValidBusData ==
  /\ fn = "none"
  /\ \E bus \in BusArguments :
    Applied("isValidBusData", bus, IsValidBusDataResult(bus))

\* One request handled by the proxy; the upstream is only asked when the
\* handler forwards.
ApplyProxyHandler ==
  /\ fn = "none"
  /\ \E req \in ProxyRequests :
       \E up \in IF Forwards(req) THEN UpstreamAnswers ELSE {NoAnswer} :
         Applied("proxy", [req |-> req, up |-> up], ProxyHandler(req, up))

\* RouteVisualization loads a route whose polylines decode and renders it.
ApplyRouteVizBounds ==
  /\ fn = "none"
  /\ \E route \in EncodedRoutes :
       LET features == RouteVizGeometry(route)
       IN  Applied("routeVizBounds", route,
                   [features |-> features,
                    bounds |-> RouteVizBounds(features)])

----------------------------------------------------------------------------
(* URLs.  A string is the list of its pieces: a piece is a host, a path, a *)
(* parameter name or value, or one of the separators ? & =, and is either  *)
(* literal or percent-encoded.  An endpoint is a path and its parameters   *)
(* in order, each <<name, value>>.                                         *)

Piece(c) == [c |-> c, enc |-> FALSE]
Text(cs) == [i \in 1 .. Len(cs) |-> Piece(cs[i])]

UpstreamHost == "https://sg-bus-data-api.vercel.app"
AllOriginsHost == "https://api.allorigins.win"
Hosts == {UpstreamHost, AllOriginsHost}

\* The pieces encodeURIComponent leaves as they are: those made of letters
\* and digits only.
Unreserved == {"url", "bbox", "limit", "format", "service", "200", "geojson"}

\* encodeURIComponent(s), decodeURIComponent(s)
EncodeURIComponent(s) ==
  [i \in 1 .. Len(s) |->
     IF s[i].c \in Unreserved THEN s[i] ELSE [s[i] EXCEPT !.enc = TRUE]]
DecodeURIComponent(s) == [i \in 1 .. Len(s) |-> [s[i] EXCEPT !.enc = FALSE]]

\* The endpoints: a path with one to MaxParams parameters of distinct
\* names, among them `/api/bus-stops?bbox=${bbox}&limit=200`.
ParamNames == {"bbox", "limit", "format"}
ParamValues == {"103.8,1.3,103.9,1.4", "200"}
Endpoints ==
  UNION {{[path |-> "/api/bus-stops",
           params |-> [i \in 1 .. n |-> <<names[i], values[i]>>]] :
            names \in {f \in [1 .. n -> ParamNames] :
                         \A i \in 1 .. n : \A j \in 1 .. n :
                           f[i] = f[j] => i = j},
            values \in [1 .. n -> ParamValues]} : n \in 1 .. MaxParams}

RECURSIVE QueryText(_)
\* name=value&name=value...
QueryText(params) ==
  IF params = <<>> THEN <<>>
  ELSE Text(<<params[1][1], "=", params[1][2]>>)
       \o (IF Len(params) = 1 THEN <<>>
           ELSE Text(<<"&">>) \o QueryText(Tail(params)))

\* The endpoint string the callers write: `${path}?${query}`.
EndpointText(e) == Text(<<e.path, "?">>) \o QueryText(e.params)

\* The position of the first literal piece c of s, 0 when there is none.
FirstIndex(s, c) ==
  IF \E i \in 1 .. Len(s) : s[i] = Piece(c)
  THEN CHOOSE i \in 1 .. Len(s) :
         s[i] = Piece(c) /\ \A j \in 1 .. i - 1 : s[j] # Piece(c)
  ELSE 0

RECURSIVE Split(_, _)
\* s.split(c)
Split(s, c) ==
  LET i == FirstIndex(s, c)
  IN  IF i = 0 THEN <<s>>
      ELSE <<SubSeq(s, 1, i - 1)>> \o Split(SubSeq(s, i + 1, Len(s)), c)

\* How a server reads a query string: split at &, each part at its first =,
\* name and value percent-decoded.  The result is the list of
\* <<name, value>>, the value a string.
ParseQuery(q) ==
  LET parts == SelectSeq(Split(q, "&"), LAMBDA part : part # <<>>)
  IN  [i \in 1 .. Len(parts) |->
         LET j == FirstIndex(parts[i], "=")
         IN  IF j = 0 THEN <<DecodeURIComponent(parts[i]), <<>> >>
             ELSE <<DecodeURIComponent(SubSeq(parts[i], 1, j - 1)),
                    DecodeURIComponent(SubSeq(parts[i], j + 1,
                                              Len(parts[i])))>>]

\* A request URL as its receiver reads it: the host ("" for a relative
\* URL, which goes to the page's origin), the path and the parameters.
ParseUrl(u) ==
  LET i == FirstIndex(u, "?")
      head == IF i = 0 THEN u ELSE SubSeq(u, 1, i - 1)
      query == IF i = 0 THEN <<>> ELSE SubSeq(u, i + 1, Len(u))
      absolute == head # <<>> /\ head[1].c \in Hosts /\ ~head[1].enc
  IN  [host |-> IF absolute THEN head[1].c ELSE "",
       path |-> IF absolute THEN Tail(head) ELSE head,
       params |-> ParseQuery(query)]

\* The value of the parameter `name`: that of its first occurrence.
ParamValue(params, name) ==
  LET at == {i \in 1 .. Len(params) : params[i][1] = Text(<<name>>)}
  IN  params[CHOOSE i \in at : \A j \in at : i <= j][2]

HasParam(params, name) ==
  \E i \in 1 .. Len(params) : params[i][1] = Text(<<name>>)

\* config.apiBaseUrl of src/config.js: REACT_APP_API_BASE_URL ||
\* (production ? the allorigins URL : '').  envBase is the variable, <<>>
\* when it is not set.
AllOriginsBaseUrl(env, envBase) ==
  IF envBase # <<>> THEN envBase
  ELSE IF env = "production"
  THEN Text(<<AllOriginsHost, "/raw", "?", "url", "=", UpstreamHost>>)
  ELSE <<>>

\* config.apiBaseUrl of the config with the proxy, and of the config at
\* the end of the RouteVisualization file when envBase is <<>>.
UpstreamBaseUrl(env, envBase) ==
  IF envBase # <<>> THEN envBase
  ELSE IF env = "production" THEN Text(<<UpstreamHost>>)
  ELSE <<>>

\* getApiUrl of src/config.js: baseUrl ? `${baseUrl}${endpoint}` : endpoint
GetApiUrl(env, envBase, endpoint) ==
  LET baseUrl == AllOriginsBaseUrl(env, envBase)
  IN  IF baseUrl # <<>> THEN baseUrl \o endpoint ELSE endpoint

\* getApiUrl of the config with the proxy.
GetApiUrlViaProxy(env, envBase, endpoint) ==
  LET baseUrl == UpstreamBaseUrl(env, envBase)
  IN  IF baseUrl = <<>> THEN endpoint
      ELSE IF env = "production"
      THEN Text(<<"/api/proxy", "?", "url", "=">>)
           \o EncodeURIComponent(baseUrl \o endpoint)
      ELSE baseUrl \o endpoint

\* getApiUrl of the config at the end of the RouteVisualization file,
\* which reads no REACT_APP_API_BASE_URL.
GetApiUrlDirect(env, endpoint) ==
  LET baseUrl == UpstreamBaseUrl(env, <<>>)
  IN  IF baseUrl # <<>> THEN baseUrl \o endpoint ELSE endpoint

RECURSIVE AppendParams(_, _)
\* targetUrl.searchParams.append(key, value) for each parameter: the pair
\* is added to the URL's query, its value encoded.
AppendParams(u, params) ==
  IF params = <<>> THEN u
  ELSE AppendParams(
         u \o Text(<<IF FirstIndex(u, "?") = 0 THEN "?" ELSE "&">>)
           \o params[1][1] \o Text(<<"=">>)
           \o EncodeURIComponent(params[1][2]),
         Tail(params))

\* The URL the proxy handler fetches for a request with the given query:
\* const { url, ...queryParams } = req.query; new URL(url) with the
\* queryParams appended.  <<>> when there is no url (the 400 answer).
ProxyTargetUrl(params) ==
  IF ~HasParam(params, "url") \/ ParamValue(params, "url") = <<>> THEN <<>>
  ELSE AppendParams(ParamValue(params, "url"),
                    SelectSeq(params, LAMBDA p : p[1] # Text(<<"url">>)))

\* The URL allorigins fetches for /raw?url=...: the value of its url
\* parameter; its other parameters are its own options.
AllOriginsTargetUrl(params) ==
  IF HasParam(params, "url") THEN ParamValue(params, "url") ELSE <<>>

\* What the upstream API is asked when the page fetches u: the path and
\* parameters of the request that reaches it.  A relative URL goes to the
\* page's origin, where /api/proxy is the proxy handler and every other
\* path is handed to the upstream as it is.
NoRequest == [path |-> <<>>, params |-> <<>>]
AtUpstream(u) ==
  LET q == ParseUrl(u) IN [path |-> q.path, params |-> q.params]
ReachesUpstream(u) ==
  LET q == ParseUrl(u)
      target == IF q.host = AllOriginsHost THEN AllOriginsTargetUrl(q.params)
                ELSE IF q.host = "" /\ q.path = Text(<<"/api/proxy">>)
                THEN ProxyTargetUrl(q.params)
                ELSE u
  IN  IF target = <<>> THEN NoRequest ELSE AtUpstream(target)

\* The path and parameters of an endpoint, as a server would read them.
Asked(e) ==
  [path |-> Text(<<e.path>>),
   params |-> [i \in 1 .. Len(e.params) |->
                 <<Text(<<e.params[i][1]>>), Text(<<e.params[i][2]>>)>>]]

\* getApiUrl of one of the three configs on an endpoint, in production or
\* development, with REACT_APP_API_BASE_URL unset or set to the upstream.
ApplyGetApiUrl ==
  /\ fn = "none"
  /\ \E cfg \in {"config", "proxy", "direct"},
        env \in {"production", "development"},
        envBase \in {<<>>, Text(<<UpstreamHost>>)},
        e \in Endpoints :
       LET url == CASE cfg = "config" ->
                         GetApiUrl(env, envBase, EndpointText(e))
                    [] cfg = "proxy" ->
                         GetApiUrlViaProxy(env, envBase, EndpointText(e))
                    [] OTHER -> GetApiUrlDirect(env, EndpointText(e))
       IN  Applied("getApiUrl",
                   [config |-> cfg, env |-> env, envBase |-> envBase,
                    endpoint |-> e],
                   [url |-> url, upstream |-> ReachesUpstream(url)])

NormInit == Init /\ kind = "arrivals"

NormNext ==
  \/ ApplyFetchArrivals
  \/ ApplyTrackerFetchArrivals
  \/ ApplyRouteVizFetchRouteData
  \/ ApplyTrackerFetchRouteData
  \/ ApplyAltFetchRouteData
  \/ ApplyAltFetchNearbyStops
  \/ ApplyBusMapStops
  \/ ApplyNearbyShapes
  \/ ApplyIsValidCoordinate
  \/ ApplyFilterValidCoordinates
  \/ ApplyCalculateBounds
  \/ ApplyIsValidStopData
  \/ ApplyIsValidBusData
  \/ ApplyProxyHandler
  \/ ApplyRouteVizBounds
  \/ ApplyGetApiUrl

NormSpec == NormInit /\ [][NormNext]_vars

----------------------------------------------------------------------------
(* BusMap.  The mount effect requests the stops once; a click on a stop's  *)
(* marker calls loadArrivals(stop.properties.code).  arrivals is an object *)
(* keyed by stop code, written as the function from the codes that are set *)
(* to their lists.                                                         *)

\* The stops responses: a failure of each kind, and the stops mapping of
\* zero to MaxList valid stops.
MapStopsResponses ==
  {Rejected, BadJson, Body(FALSE, "absent", <<>>, FALSE)}
  \cup {Body(TRUE, "list", StopsShape(S), FALSE) : S \in ValidStops}

\* The arrivals responses: those with no arrival and with one.  BusMap
\* reads neither response.ok nor data.error.
LoadResponses == ResponsesOver("busmap", {<<>>, <<[serviceNo |-> 1]>>})

\* if (data.success && data.data.arrivals): reading data.data.arrivals of a
\* body without data throws into the catch, which like the else branch only
\* logs.  An array, empty or not, is truthy.
LoadWrites(r) ==
  r.net = "resp" /\ r.json = "body" /\ r.success /\ r.data = "list"

\* setArrivals({[stopCode]: list}), dropping the other stops' entries.
OnlySlot(prev, stopCode, list) == [c \in {stopCode} |-> list]

\* prev => ({ ...prev, [stopCode]: list })
MergeSlot(prev, stopCode, list) ==
  [c \in DOMAIN prev \cup {stopCode} |->
     IF c = stopCode THEN list ELSE prev[c]]

MapEvent(op, stopCode, wrote, list) ==
  [op |-> op, stopCode |-> stopCode, wrote |-> wrote, list |-> list,
   before |-> arrivals]

\* The continuation of the stops request.
StopsResolve ==
  /\ stopsPending
  /\ \E r \in MapStopsResponses :
       busStops' = BusMapStops(busStops, r)
  /\ stopsPending' = FALSE
  /\ mapEv' = MapEvent("stops", 0, FALSE, <<>>)
  /\ UNCHANGED <<arrivals, loads, batch>>
  /\ UNCHANGED <<instance, applied, pair, tracking>>

\* A click on a marker: loadArrivals up to its await.
MarkerClick ==
  /\ Len(loads) < MaxInFlight
  /\ Len(loads) + (IF loads = <<>> THEN 0 ELSE Len(batch)) < MaxLoads
  /\ \E i \in 1 .. Len(busStops) :
       LET started == IF loads = <<>> THEN 0 ELSE Len(batch) + Len(loads)
       IN  /\ loads' = Append(loads, [stopCode |-> busStops[i].code,
                                      n |-> started + 1])
           /\ mapEv' = MapEvent("click", busStops[i].code, FALSE, <<>>)
  /\ batch' = IF loads = <<>> THEN <<>> ELSE batch
  /\ UNCHANGED <<busStops, stopsPending, arrivals>>
  /\ UNCHANGED <<instance, applied, pair, tracking>>

\* The continuation of loadArrivals call i after its awaits.
LoadResolve ==
  /\ \E i \in 1 .. Len(loads), r \in LoadResponses :
       LET stopCode == loads[i].stopCode
           wrote == LoadWrites(r)
           list == IF wrote THEN r.list ELSE <<>>
       IN  /\ arrivals' = IF wrote THEN MergeSlot(arrivals, stopCode, list)
                          ELSE arrivals
           /\ loads' = RemoveAt(loads, i)
           /\ batch' = Append(batch, [stopCode |-> stopCode, n |-> loads[i].n,
                                      wrote |-> wrote, list |-> list])
           /\ mapEv' = MapEvent("resolve", stopCode, wrote, list)
  /\ UNCHANGED <<busStops, stopsPending>>
  /\ UNCHANGED <<instance, applied, pair, tracking>>

MapInit == Init /\ kind = "arrivals"

MapNext ==
  \/ StopsResolve
  \/ MarkerClick
  \/ LoadResolve

MapSpec == MapInit /\ [][MapNext]_vars

----------------------------------------------------------------------------
(* BusTracker as a whole: its arrivals poller (the kind "tracker" above)   *)
(* together with fetchRouteData, the route path and stops, and the         *)
(* selected bus.  An arrival is [serviceNo, buses], a bus                  *)
(* [visitNumber, latitude, longitude].  refreshInterval is not kept: a     *)
(* change of it re-runs the effect and nothing else reads it.              *)

\* selectedBus === null
NoBus == [null |-> TRUE]

Bus(visitNumber, latitude, longitude) ==
  [visitNumber |-> visitNumber, latitude |-> latitude,
   longitude |-> longitude]

\* The bus lists of an arrival: one bus with a position, the same bus
\* further on, one without a position (not monitored), and both.
BusLists ==
  LET here == Bus(1, JsNum(135), JsNum(10380))
      there == Bus(1, JsNum(136), JsNum(10381))
      unseen == Bus(2, JsNull, JsNull)
  IN  {<<here>>, <<there>>, <<unseen>>, <<here, unseen>>}

\* The arrivals responses: a rejected fetch, a non-2xx answer, and the
\* bodies with no arrival or one arrival of one service.
BusResponses ==
  {Rejected, HttpFail, Body(TRUE, "list", <<>>, FALSE)}
  \cup {Body(TRUE, "list", <<[serviceNo |-> n, buses |-> b]>>, FALSE) :
          n \in Services, b \in BusLists}

\* The route responses: a failure of each kind, a body without data, one
\* without the service, and route objects with and without a polyline.
TrackerRouteResponses ==
  {Rejected, HttpFail, Body(TRUE, "absent", <<>>, FALSE),
   Body(TRUE, "nofield", <<>>, FALSE)}
  \cup {Body(TRUE, "list", [polylines |-> p, stops |-> NoArray], FALSE) :
          p \in {NoArray, ArrayOf(<<[decodes |-> TRUE, id |-> 1]>>)}}

\* Whether fetchRouteData reaches setRouteStops([]): not when the fetch or
\* response.json() rejects, nor when reading routeData.data.routes throws.
ReachesSetRouteStops(r) ==
  /\ r.net = "resp"
  /\ r.ok => (r.json = "body" /\ (r.success => r.data # "absent"))

RECURSIVE Concat(_)
Concat(lists) ==
  IF lists = <<>> THEN <<>> ELSE Head(lists) \o Concat(Tail(lists))

\* allBuses: arrivals.flatMap(arrival => arrival.buses.map(bus => ({...bus,
\* serviceNo}))).filter(bus => bus.latitude && bus.longitude)
AllBuses(list) ==
  SelectSeq(
    Concat([i \in 1 .. Len(list) |->
              [j \in 1 .. Len(list[i].buses) |->
                 [null |-> FALSE, serviceNo |-> list[i].serviceNo,
                  visitNumber |-> list[i].buses[j].visitNumber,
                  latitude |-> list[i].buses[j].latitude,
                  longitude |-> list[i].buses[j].longitude]]]),
    LAMBDA bus : Truthy(bus.latitude) /\ Truthy(bus.longitude))

\* fetchRouteData up to its await, called by the effect run `by`:
\* if (!serviceNumber) return.
FetchRoute(reqs, k, by) ==
  IF k[1] = 0 THEN reqs
  ELSE Append(reqs, [serviceNumber |-> k[1], by |-> by])

\* A BusTracker handler ran as op and left the props k, the poller cells h,
\* the other cells v and the route requests reqs.  The poller's histories
\* are not kept here.
TrackerCommit(op, k, h, v, reqs, by) ==
  /\ Len(h.inflight) <= MaxInFlight
  /\ Len(h.timer) <= MaxTimers
  /\ Len(reqs) <= MaxRouteReqs
  /\ trackerProps' = k
  /\ trackerPoll' = [h EXCEPT !.overtaken = 0, !.hadSuccess = FALSE]
  /\ trackerView' = v
  /\ routeReqs' = reqs
  /\ trackerEv' = [op |-> op,
                   routeIssued |-> IF Len(reqs) > Len(routeReqs)
                                   THEN Len(reqs) - Len(routeReqs) ELSE 0,
                   by |-> by,
                   pathBefore |-> trackerView.routePath]
  /\ UNCHANGED <<instance, applied, pair, busmap>>

\* The effect runs (again) as `by` with props k and autoRefresh auto:
\* fetchArrivals(); fetchRouteData(); setInterval.
TrackerEffect(by, k, h, auto) ==
  TrackerCommit(by, k, RunEffect("tracker", h, k, auto),
                [trackerView EXCEPT !.autoRefresh = auto],
                FetchRoute(routeReqs, k, by), by)

TrackerMounted == trackerEv.op # "init"

TrackerMount ==
  /\ ~TrackerMounted
  /\ \E k \in KeySpace("tracker") :
       TrackerEffect("mount", k, InitialState("tracker"), TRUE)

\* The serviceNumber prop changes: fetchArrivals and fetchRouteData are new
\* functions, the effect re-runs.
TrackerChangeService ==
  /\ TrackerMounted
  /\ \E n \in KeyVals \ {trackerProps[1]} :
       TrackerEffect("service", <<n, trackerProps[2]>>,
                     Cleanup(trackerPoll), trackerView.autoRefresh)

\* The busStopCode prop changes: fetchArrivals is a new function, the
\* effect re-runs.
TrackerChangeStop ==
  /\ TrackerMounted
  /\ \E c \in (0 .. MaxKey2) \ {trackerProps[2]} :
       TrackerEffect("stop", <<trackerProps[1], c>>,
                     Cleanup(trackerPoll), trackerView.autoRefresh)

\* The refreshInterval prop changes: the effect re-runs.
TrackerChangeInterval ==
  /\ TrackerMounted
  /\ TrackerEffect("interval", trackerProps, Cleanup(trackerPoll),
                   trackerView.autoRefresh)

\* The auto-refresh checkbox, rendered when both props are present.
TrackerToggle ==
  /\ TrackerMounted
  /\ Present("tracker", trackerProps)
  /\ TrackerEffect("toggle", trackerProps, Cleanup(trackerPoll),
                   ~trackerView.autoRefresh)

\* An interval fires.
TrackerTick ==
  /\ \E t \in 1 .. Len(trackerPoll.timer) :
       TrackerCommit("tick", trackerProps,
                     Fetch("tracker", trackerPoll, trackerPoll.timer[t]),
                     trackerView, routeReqs, "none")

\* The Refresh button, disabled while isLoading.
TrackerRefresh ==
  /\ TrackerMounted
  /\ Present("tracker", trackerProps)
  /\ ~trackerPoll.loading
  /\ TrackerCommit("refresh", trackerProps,
                   Fetch("tracker", trackerPoll, trackerProps),
                   trackerView, routeReqs, "none")

\* The continuation of fetchArrivals call i.
TrackerArrivalsResolve ==
  /\ \E i \in 1 .. Len(trackerPoll.inflight), r \in BusResponses :
       TrackerCommit("arrivals", trackerProps,
                     Settle("tracker", trackerPoll, i,
                            TrackerOutcome(trackerPoll.inflight[i], r)),
                     trackerView, routeReqs, "none")

\* The continuation of fetchRouteData call i.
TrackerRouteResolve ==
  /\ \E i \in 1 .. Len(routeReqs), r \in TrackerRouteResponses :
       TrackerCommit("route", trackerProps, trackerPoll,
                     [trackerView EXCEPT
                        !.routePath = TrackerRoutePath(@, r),
                        !.routeStops = IF ReachesSetRouteStops(r) THEN <<>>
                                       ELSE @],
                     RemoveAt(routeReqs, i), routeReqs[i].by)

\* A click on a bus marker, on a button of the bus list or on the popup's
\* button: setSelectedBus(bus), bus one of allBuses.
TrackerSelect ==
  /\ TrackerMounted
  /\ Present("tracker", trackerProps)
  /\ \E bus \in {AllBuses(trackerPoll.snapshot.a)[i] :
                   i \in 1 .. Len(AllBuses(trackerPoll.snapshot.a))} :
       TrackerCommit("select", trackerProps, trackerPoll,
                     [trackerView EXCEPT !.selectedBus = bus],
                     routeReqs, "none")

\* Clear Selection, rendered while a bus is selected.
TrackerClear ==
  /\ TrackerMounted
  /\ Present("tracker", trackerProps)
  /\ trackerView.selectedBus # NoBus
  /\ TrackerCommit("clear", trackerProps, trackerPoll,
                   [trackerView EXCEPT !.selectedBus = NoBus],
                   routeReqs, "none")

TrackerInit == Init /\ kind = "arrivals"

TrackerNext ==
  \/ TrackerMount
  \/ TrackerChangeService
  \/ TrackerChangeStop
  \/ TrackerChangeInterval
  \/ TrackerToggle
  \/ TrackerTick
  \/ TrackerRefresh
  \/ TrackerArrivalsResolve
  \/ TrackerRouteResolve
  \/ TrackerSelect
  \/ TrackerClear

TrackerSpec == TrackerInit /\ [][TrackerNext]_vars

----------------------------------------------------------------------------
(* The poller state of the design: idle, loading, ready, error *)

\* BusTracker keeps it as connectionStatus; for the hooks it is read off
\* loading, error and whether a cycle has succeeded.
PollerState ==
  IF kind = "tracker"
  THEN CASE status = "connecting" -> "loading"
         [] status = "connected" -> "ready"
         [] OTHER -> status
  ELSE IF loading THEN "loading"
  ELSE IF error # NoError THEN "error"
  ELSE IF hadSuccess THEN "ready"
  ELSE "idle"

AllowedTransitions ==
  {<<"idle", "loading">>, <<"loading", "ready">>, <<"loading", "error">>,
   <<"ready", "loading">>, <<"error", "loading">>}

\* The requests in flight that were issued for the instance's current key.
CurrentRequests == {i \in 1 .. Len(inflight) : inflight[i] = key}

Subscribed == mounted /\ Present(kind, key)

----------------------------------------------------------------------------
(* Claims *)

\* C1: in every kind, a cycle that fails after an earlier cycle succeeded
\* leaves the snapshot as it was and sets the error to a message.
C1_FailureKeepsSnapshot ==
  [][(ev'.op = "resolve" /\ ev'.fail /\ hadSuccess)
       => /\ snapshot' = snapshot
          /\ HasError(kind) => error' # NoError]_vars

\* C2: after an interval tick or a manual refresh, at most one request of
\* the subscription is in flight (a tick that finds one outstanding is
\* skipped).
C2_AtMostOneInFlight ==
  (mounted /\ ev.op \in {"tick", "refresh"})
    => Cardinality(CurrentRequests) <= 1

\* C3: a response is never written to the snapshot after the response of a
\* request issued later has been written.
C3_WritesInIssueOrder ==
  (ev.op = "resolve" /\ ev.wrote /\ ~ev.fail) => ~ev.late

\* C4: once the subscription is torn down (unmounted, or its key removed),
\* the resolution of a request changes neither snapshot, loading nor error.
C4_ResolveAfterTeardownInert ==
  [][(ev'.op = "resolve" /\ ~Subscribed)
       => UNCHANGED <<snapshot, loading, error>>]_vars

\* C5: after the key changed from K1 to K2, the response to a K1 request
\* writes neither snapshot, loading nor error.
C5_StaleResponseInert ==
  [][(ev'.op = "resolve" /\ ev'.stale /\ Subscribed)
       => UNCHANGED <<snapshot, loading, error>>]_vars

\* C6: right after a cycle completes successfully, loading is false and
\* error is null (in BusTracker the status is 'connected' and the last-update
\* time is set), whatever the interleaving.
C6_SuccessLeavesReady ==
  (mounted /\ ev.op = "resolve" /\ ~ev.fail)
    => /\ ~loading
       /\ error = NoError
       /\ kind = "tracker" => (status = "connected" /\ lastUpdate)

\* C7: the poller state (of the kinds with an error state that fetch) moves
\* only along idle -> loading -> {ready, error} -> loading.
C7_OnlyAllowedTransitions ==
  [][(mounted /\ mounted' /\ HasError(kind) /\ kind # "positionsStub")
       => (PollerState' = PollerState
           \/ <<PollerState, PollerState'>> \in AllowedTransitions)]_vars

C9_MissingKeyStaysIdle ==
  [][(mounted /\ mounted' /\ ~Present(kind, key) /\ ~Present(kind, key'))
       => /\ ev'.issued = 0
          /\ ~loading => ~loading'
          /\ error = NoError => error' = NoError]_vars

\* C10: an error does not stop the poller: while the subscription of a
\* polling kind stays mounted with its key (and, in BusTracker, auto-refresh
\* on), its interval stays set, and every tick issues a new request for the
\* key, also one that finds the error state.
C10_ErrorDoesNotStopPolling ==
  /\ [](( /\ Subscribed /\ Polls(kind)
          /\ kind = "tracker" => autoRefresh) => timer = TimerOn(key))
  /\ [][(ev'.op = "tick" /\ Subscribed /\ kind # "positionsStub")
          => /\ ev'.issued = 1
             /\ inflight' = Append(inflight, key)
             /\ loading']_vars

\* C10's case: a tick found the poller in the error state and issued a
\* request.
C10_Witness ==
  /\ ev.op = "tick" /\ ev.onError /\ ev.issued = 1
  /\ Subscribed /\ loading /\ inflight # <<>>

\* C11: a subscription has at most one interval set; an interval that is set
\* belongs to the mounted instance's current effect run (its callback holds
\* the current key), so none survives an unmount or a key change; and a tick
\* that issues a request issues it for the current key of a live
\* subscription.
C11_OneTimerPerSubscription ==
  /\ Len(timer) <= 1
  /\ timer # <<>> => (mounted /\ Polls(kind) /\ timer = TimerOn(key))
  /\ (ev.op = "tick" /\ ev.issued = 1)
       => (Subscribed /\ inflight[Len(inflight)] = key)

\* C11's case: the key has just changed from one present key to another
\* while polling; the old interval is gone and the new one is set.
C11_Witness ==
  /\ ev.op = "key" /\ Polls(kind) /\ timer = TimerOn(key)
  /\ Len(inflight) = 2 /\ Present(kind, inflight[1]) /\ inflight[1] # key

\* A number that is neither NaN nor zero.
ProperNumber(x) == x.t = "number" /\ ~x.nan /\ x.v # 0

\* A 2xx response whose body parsed.
ParsedBody(r) == r.net = "resp" /\ r.ok /\ r.json = "body"

\* C12: in the arrivals hook a parsed 2xx response whose `success` is falsy
\* or that has no `data.arrivals` (also when it has no `data`) gives the
\* error state and leaves the arrivals as they were; any other one makes
\* the arrivals exactly the response's list, replacing the former list.
C12_ArrivalsNormalization ==
  (fn = "fetchArrivals" /\ ParsedBody(arg.r))
    => IF ~arg.r.success \/ arg.r.data # "list"
       THEN res.error # NoError /\ res.snapshot = arg.prev
       ELSE res.error = NoError /\ res.snapshot = Snap(arg.r.list, <<>>)

\* C12's cases: a list of two arrivals has replaced a different list; a
\* successful body without `data` has left the error state and the list.
C12_Witness ==
  /\ fn = "fetchArrivals" /\ ParsedBody(arg.r) /\ arg.r.success
  /\ arg.r.data = "list" /\ Len(arg.r.list) = 2
  /\ arg.r.list[1].serviceNo # arg.r.list[2].serviceNo
  /\ Len(arg.prev.a) = 1
  /\ res.snapshot.a = arg.r.list

\* C13: after a successful BusTracker cycle for service number N the
\* arrivals are exactly those of the response whose serviceNo is N, each
\* once and in response order.
C13_TrackerArrivalsFiltered ==
  (fn = "BusTracker.fetchArrivals" /\ ParsedBody(arg.r) /\ arg.r.success
     /\ arg.r.data = "list")
    => LET shown == res.snapshot.a
           n == arg.key[1]
       IN  /\ res.error = NoError
           /\ \A i \in 1 .. Len(shown) : shown[i].serviceNo = n
           /\ \A i \in 1 .. Len(shown) :
                \A j \in 1 .. Len(shown) : i < j => shown[i].id < shown[j].id
           /\ {shown[i] : i \in 1 .. Len(shown)}
                = {arg.r.list[i] : i \in {j \in 1 .. Len(arg.r.list) :
                                           arg.r.list[j].serviceNo = n}}

\* C13's case: the response held an arrival of service N and one of another
\* service, and only the former is shown.
C13_Witness ==
  /\ fn = "BusTracker.fetchArrivals" /\ ParsedBody(arg.r) /\ arg.r.success
  /\ arg.r.data = "list" /\ Len(arg.r.list) = 2
  /\ arg.r.list[1].serviceNo # arg.key[1]
  /\ arg.r.list[2].serviceNo = arg.key[1]
  /\ res.snapshot.a = <<arg.r.list[2]>>

\* A parsed 2xx response that reports success and holds the route object of
\* the requested service; one that reports success and does not hold it.
HoldsService(r) == ParsedBody(r) /\ r.success /\ r.data = "list"
LacksService(r) == ParsedBody(r) /\ r.success /\ r.data # "list"

\* C14: when a successful route response does not hold the requested
\* service number, the route is cleared (null or empty), also one shown
\* before, and the error stays null.
C14_MissingServiceClearsRoute ==
  (fn \in {"RouteVisualization.fetchRouteData", "BusTracker.fetchRouteData"}
     /\ LacksService(arg.r))
    => /\ res.snapshot \in {NullSnap, EmptySnap}
       /\ res.error = NoError

\* The patterns expected of a polylines list: one per polyline that
\* decodes, in order, with the polyline's own index and coordinates.
OwnIndexPatterns(polylines) ==
  LET decoded == SelectSeq(polylines.items, LAMBDA p : p.decodes)
  IN  [i \in 1 .. Len(decoded) |->
         [pattern |-> decoded[i].id - 1, coordinates |-> <<decoded[i].id>>]]

\* The patterns on show that come from polylines: RouteVisualization's
\* features without a stop sequence; BusTracker's paths, whose index is
\* their position in routePath.
PolylinePatterns ==
  IF fn = "BusTracker.fetchRouteData"
  THEN [i \in 1 .. Len(res.snapshot.a) |->
          [pattern |-> i - 1, coordinates |-> res.snapshot.a[i]]]
  ELSE LET fs == SelectSeq(res.snapshot.a, LAMBDA f : f.stops = 0)
       IN  [i \in 1 .. Len(fs) |->
              [pattern |-> fs[i].pattern, coordinates |-> fs[i].coordinates]]

\* C15 as claimed: in both components the route holds exactly one pattern
\* per polyline that decodes, in response order and with the polyline's own
\* index, and the fetch does not enter the error state.
C15_DecodeFailureContained ==
  (fn \in {"RouteVisualization.fetchRouteData", "BusTracker.fetchRouteData"}
     /\ HoldsService(arg.r) /\ arg.r.list.polylines.array)
    => /\ res.error = NoError
       /\ PolylinePatterns = OwnIndexPatterns(arg.r.list.polylines)

\* C15 as amended: RouteVisualization does so; BusTracker keeps the decoded
\* paths in response order, a path's index being its rank among the decoded
\* ones; neither enters the error state.
C15_DecodeFailureContainedPerComponent ==
  (fn \in {"RouteVisualization.fetchRouteData", "BusTracker.fetchRouteData"}
     /\ HoldsService(arg.r) /\ arg.r.list.polylines.array)
    => LET own == OwnIndexPatterns(arg.r.list.polylines)
       IN  /\ res.error = NoError
           /\ ~res.snapshot.null
           /\ fn = "RouteVisualization.fetchRouteData"
                => PolylinePatterns = own
           /\ fn = "BusTracker.fetchRouteData"
                => res.snapshot.a
                     = [i \in 1 .. Len(own) |-> own[i].coordinates]

\* C15's case: of two polylines the first failed to decode, and
\* RouteVisualization shows the second alone, as pattern 1.
C15_Witness ==
  /\ fn = "RouteVisualization.fetchRouteData" /\ HoldsService(arg.r)
  /\ arg.r.list.polylines.array
  /\ Len(arg.r.list.polylines.items) = 2
  /\ ~arg.r.list.polylines.items[1].decodes
  /\ arg.r.list.polylines.items[2].decodes
  /\ res.snapshot.a = <<Feature(1, <<2>>, 0)>>
  /\ res.error = NoError

\* C16: when the route object has no polylines but a stop-sequence list, the
\* route has exactly one pattern per stop sequence, each with an empty path
\* and the sequence's position as index, and the request does not fail; and
\* patterns with an empty path are there only when the feed supplies no
\* polyline.
C16_StopSequencePatterns ==
  (fn \in {"RouteVisualization.fetchRouteData", "useBusRoute.fetchRouteData"}
     /\ HoldsService(arg.r))
    => LET info == arg.r.list
           shown == res.snapshot.a
       IN  /\ (info.polylines.items = <<>> /\ info.stops.array)
                => /\ ~res.snapshot.null /\ res.error = NoError
                   /\ [i \in 1 .. Len(shown) |->
                         <<shown[i].pattern, shown[i].coordinates>>]
                        = [i \in 1 .. Len(info.stops.items) |-> <<i - 1, <<>> >>]
           /\ (\E i \in 1 .. Len(shown) : shown[i].coordinates = <<>>)
                => info.polylines.items = <<>>

\* C17: for the same stops, a nearby-stops normalizer gives the same list
\* from the data.stops shape as from the data.features shape, and for a
\* non-empty set of stops neither list is empty.
C17_ShapesAgree ==
  fn = "fetchNearbyStops"
    => /\ res.fromStops = res.fromFeatures
       /\ arg.stops # <<>>
            => (res.fromStops # <<>> /\ res.fromFeatures # <<>>)

\* C18: from a data.stops mapping the stops shown are exactly one feature
\* per entry that passes isValidStopData, in order and under the entry's
\* code, with an empty services list; entries that fail it (short, null,
\* zero / NaN / non-numeric coordinates) give none.
C18_OnlyValidStopRecords ==
  (fn \in {"useNearbyStops.fetchNearbyStops", "BusMap.stops"}
     /\ HoldsService(arg.r))
    => LET shown == res.snapshot.a
           valid == SelectSeq(arg.r.list,
                              LAMBDA p : /\ p.entry.array
                                         /\ Len(p.entry.items) >= 4
                                         /\ ProperNumber(Elem(p.entry, 1))
                                         /\ ProperNumber(Elem(p.entry, 2)))
       IN  /\ [i \in 1 .. Len(shown) |-> shown[i].code]
                = [i \in 1 .. Len(valid) |-> valid[i].code]
           /\ \A i \in 1 .. Len(shown) : shown[i].services = <<>>

\* The messages of transport and format errors that the code spells out or
\* the runtime produces.
TransportAndFormatMsgs ==
  {MsgNetwork, MsgSyntax, MsgType, MsgFormat, MsgHttpArrivals,
   MsgHttpPositions, MsgHttpTracker, MsgHttpRoute, MsgInvalidRoute}

C20_IsValidCoordinateIff ==
  fn = "isValidCoordinate"
    => /\ res = (ProperNumber(arg[1]) /\ ProperNumber(arg[2]))
       /\ arg \in {<<JsNum(0), JsNum(0)>>, <<JsNaN, JsNum(100)>>,
                   <<JsNum(100), JsNull>>} => ~res
       /\ (\E i \in {1, 2} : arg[i].t \in {"string", "boolean"}) => ~res
       /\ arg = <<JsNum(10380), JsNum(135)>> => res

\* C20's case: the function has been applied to a numeric string next to a
\* valid number and said no.
C20_Witness ==
  /\ fn = "isValidCoordinate"
  /\ arg = <<JsNumStr(135), JsNum(10380)>>
  /\ res = FALSE

\* An entry the filter is to keep: an array of two or more elements whose
\* first two are numbers other than NaN and zero.
ValidPair(c) ==
  /\ IsArray(c)
  /\ Len(c.items) >= 2
  /\ ProperNumber(c.items[1]) /\ ProperNumber(c.items[2])

\* C21: filterValidCoordinates of an array returns exactly its valid pairs
\* (arrays of length at least 2 whose first two elements are valid
\* coordinates), each once, unaltered and in their original relative order,
\* and filtering the result again changes nothing; [[103.8,1.3],[0,0],
\* [NaN,1.3]] gives [[103.8,1.3]].
C21_FilterKeepsValidInOrder ==
  (fn = "filterValidCoordinates" /\ IsArray(arg)) =>
    LET given == arg.items
        out == res.once.value.items
        kept == {i \in 1 .. Len(given) : ValidPair(given[i])}
    IN  /\ ~res.once.throws
        /\ Len(out) = Cardinality(kept)
        /\ \E f \in [1 .. Len(out) -> kept] :
             /\ \A j \in 1 .. Len(out) : \A k \in 1 .. Len(out) :
                  j < k => f[j] < f[k]
             /\ \A j \in 1 .. Len(out) : out[j] = given[f[j]]
        /\ res.twice = res.once
        /\ given = <<ArrayOf(<<JsNum(10380), JsNum(130)>>),
                     ArrayOf(<<JsNum(0), JsNum(0)>>),
                     ArrayOf(<<JsNaN, JsNum(130)>>)>>
             => out = <<ArrayOf(<<JsNum(10380), JsNum(130)>>)>>

\* C21's case: two valid pairs, the larger first, around an entry that is
\* dropped, come out in the order they went in.
C21_Witness ==
  /\ fn = "filterValidCoordinates"
  /\ arg = ArrayOf(<<ArrayOf(<<JsNum(10390), JsNum(140)>>), JsNull,
                     ArrayOf(<<JsNum(10380), JsNum(130)>>)>>)
  /\ res.once = Returns(ArrayOf(<<ArrayOf(<<JsNum(10390), JsNum(140)>>),
                                  ArrayOf(<<JsNum(10380), JsNum(130)>>)>>))

\* C22: calculateBounds of an array of (lng, lat) pairs is the fallback
\* [[1.2,103.6],[1.5,104.0]] when no entry is a valid pair and otherwise
\* [[minLat,minLng],[maxLat,maxLng]] over the valid pairs only; it equals
\* calculateBounds of the filtered array; [] gives the fallback and
\* [[103.8,1.3],[103.9,1.4]] gives [[1.3,103.8],[1.4,103.9]].
C22_BoundsOverValidPairs ==
  (fn = "calculateBounds" /\ IsArray(arg)) =>
    LET given == arg.items
        kept == {i \in 1 .. Len(given) : ValidPair(given[i])}
        lats == {given[i].items[2].v : i \in kept}
        lngs == {given[i].items[1].v : i \in kept}
        box == res.bounds.value
    IN  /\ ~res.bounds.throws
        /\ kept = {} => box = <<<<120, 10360>>, <<150, 10400>>>>
        /\ kept # {} =>
             /\ box[1][1] \in lats /\ \A x \in lats : box[1][1] <= x
             /\ box[1][2] \in lngs /\ \A x \in lngs : box[1][2] <= x
             /\ box[2][1] \in lats /\ \A x \in lats : x <= box[2][1]
             /\ box[2][2] \in lngs /\ \A x \in lngs : x <= box[2][2]
        /\ res.ofFiltered = res.bounds
        /\ given = <<ArrayOf(<<JsNum(10380), JsNum(130)>>),
                     ArrayOf(<<JsNum(10390), JsNum(140)>>)>>
             => box = <<<<130, 10380>>, <<140, 10390>>>>

\* C22's case: a (0, 0) pair and a null entry next to one valid pair leave
\* the box at that pair.
C22_Witness ==
  /\ fn = "calculateBounds"
  /\ arg = ArrayOf(<<ArrayOf(<<JsNum(0), JsNum(0)>>),
                     ArrayOf(<<JsNum(10390), JsNum(140)>>), JsNull>>)
  /\ res.bounds = Returns(<<<<140, 10390>>, <<140, 10390>>>>)

\* C23: the validators and bounds functions never throw: on null, undefined
\* and every other value that is no array (no object, for isValidBusData),
\* isValidCoordinate, isValidStopData and isValidBusData return the boolean
\* false, filterValidCoordinates returns an empty list and calculateBounds
\* the fallback, and on an array holding null or non-array entries the last
\* two return without throwing.
C23_NeverRaises ==
  /\ fn = "isValidCoordinate" =>
       ((\E i \in {1, 2} : arg[i].t # "number") => res = FALSE)
  /\ (fn = "isValidStopData" /\ ~IsArray(arg)) => res = JsBool(FALSE)
  /\ (fn = "isValidBusData" /\ "latitude" \notin DOMAIN arg)
       => res = JsBool(FALSE)
  /\ fn = "filterValidCoordinates" =>
       /\ ~res.once.throws
       /\ ~IsArray(arg) => res.once.value = ArrayOf(<<>>)
  /\ fn = "calculateBounds" =>
       /\ ~res.bounds.throws
       /\ ~IsArray(arg) => res.bounds.value = DefaultBounds

\* C24: isValidStopData accepts a record exactly when it is an array of
\* four or more elements whose first two are numbers other than NaN and
\* zero; arrays of length 0 to 3 and records whose lng or lat is null, NaN,
\* zero or no number are rejected whatever their other elements are.
C24_StopRecordAccepted ==
  fn = "isValidStopData" =>
    /\ Truthy(res) <=> /\ IsArray(arg)
                       /\ Len(arg.items) >= 4
                       /\ ProperNumber(arg.items[1])
                       /\ ProperNumber(arg.items[2])
    /\ (IsArray(arg) /\ Len(arg.items) <= 3) => ~Truthy(res)
    /\ (IsArray(arg) /\ Len(arg.items) >= 2
         /\ \E i \in {1, 2} :
              \/ arg.items[i] \in {JsNull, JsNaN, JsNum(0)}
              \/ arg.items[i].t # "number") => ~Truthy(res)

\* C24's case: a record of three elements with valid coordinates has been
\* rejected.
C24_Witness ==
  /\ fn = "isValidStopData"
  /\ arg = ArrayOf(<<JsNum(10380), JsNum(135), JsText>>)
  /\ res = JsBool(FALSE)

\* A tick of instance i that issues a request.
TickIssues(i) ==
  /\ SubTick(i)
  /\ Len(subs'[i].state.inflight) = Len(subs[i].state.inflight) + 1

\* C25: the poll loops of two subscriptions are independent: no handler of
\* one changes the other's snapshot, loading or error (or anything else of
\* its state), and whatever requests of the other are outstanding, a tick of
\* a subscription with its interval set issues a request and each of its
\* requests in flight can complete.
C25_LoopsIndependent ==
  /\ [][\A j \in 1 .. 2 : j # actor' => subs'[j] = subs[j]]_vars
  /\ [](\A i \in 1 .. 2 :
          /\ (subs[i].state.timer # <<>>
               /\ Len(subs[i].state.inflight) < MaxInFlight)
              => ENABLED TickIssues(i)
          /\ subs[i].state.inflight # <<>> => ENABLED SubResolve(i))

\* C25's case: the request the positions hook issued at mount is still
\* outstanding and the hook has done nothing since, while the arrivals hook
\* has completed two cycles, the later one started by a tick.
C25_Witness ==
  /\ subs[2].last = "mount"
  /\ Len(subs[2].state.inflight) = 1
  /\ subs[2].state.loading
  /\ subs[1].done = MaxCycles
  /\ subs[1].last = "resolve"
  /\ subs[1].state.inflight = <<>>
  /\ ~subs[1].state.loading
  /\ subs[1].state.error = NoError

\* A tick that runs the fetch function, which for the fetching pollers
\* issues a request.
TickStartsCycle ==
  /\ Tick
  /\ ev'.op = "tick"
  /\ kind \in {"arrivals", "positions"} => ev'.issued = 1

C27_TrackerAutoRefreshes ==
  (kind = "tracker" /\ mounted /\ key[1] # 0) =>
    /\ autoRefresh =>
         /\ timer # <<>>
         /\ ev.op \in {"mount", "tick"} => ev.issued = 1
    /\ ~autoRefresh =>
         /\ timer = <<>>
         /\ ev.op = "tick" => ev.issued = 0

\* C28: every reply of the proxy carries the permissive CORS headers, and
\* whenever the upstream answered, the reply has the upstream's status code,
\* whatever that status and the upstream's body are.
C28_ProxyRelaysStatus ==
  fn = "proxy" =>
    /\ res.headers = CorsHeaders
    /\ arg.up.answered => res.status = arg.up.status

\* The points of a route.
PointsOf(route) ==
  UNION {{route[i][j] : j \in 1 .. Len(route[i])} : i \in 1 .. Len(route)}

\* C29: the pairs stored as a route pattern's path are in (lon, lat) order,
\* so the bounds the route view computes from them are
\* [[minLat,minLon],[maxLat,maxLon]] of the decoded route, and every decoded
\* point lies inside them, latitude in the first slot of each corner.
C29_PathIsLonLat ==
  fn = "routeVizBounds" =>
    LET box == res.bounds.value
        lats == {p.lat : p \in PointsOf(arg)}
        lons == {p.lon : p \in PointsOf(arg)}
    IN  /\ \A i \in 1 .. Len(arg) : \A j \in 1 .. Len(arg[i]) :
             res.features[i].coordinates[j] =
               ArrayOf(<<JsNum(arg[i][j].lon), JsNum(arg[i][j].lat)>>)
        /\ box = <<<<Min(lats), Min(lons)>>, <<Max(lats), Max(lons)>>>>
        /\ \A p \in PointsOf(arg) :
             /\ box[1][1] <= p.lat /\ p.lat <= box[2][1]
             /\ box[1][2] <= p.lon /\ p.lon <= box[2][2]

\* C30: in the route view, when a fetch fails while a route loaded by an
\* earlier fetch is held, the view after the failure still shows that route,
\* together with the error message.
C30_FailureKeepsRouteDisplayed ==
  [][(kind = "routeviz" /\ ev'.op = "resolve" /\ ev'.fail
      /\ snapshot # NullSnap /\ snapshot.a # <<>>)
       => /\ RouteVizView(Cur)'.route = snapshot
          /\ RouteVizView(Cur)'.message # NoError]_vars

\* Number.isFinite of a number of the model.
IsFinite(x) == TypeofNumber(x) /\ ~IsNaN(x) /\ x.v # Infinity

\* C31: every pair isValidCoordinate accepts has both components finite,
\* and each of the four numbers calculateBounds returns is finite.
C31_BoundsAreFinite ==
  /\ (fn = "isValidCoordinate" /\ res) => IsFinite(arg[1]) /\ IsFinite(arg[2])
  /\ (fn = "calculateBounds" /\ ~res.bounds.throws) =>
       \A i \in 1 .. 2, j \in 1 .. 2 : res.bounds.value[i][j] # Infinity

\* C32: a loadArrivals that succeeds sets its own stop's entry of arrivals
\* and leaves every other entry as it was, one that fails leaves arrivals as
\* it was, and once no call is in flight each stop holds the list of the
\* last call for it that succeeded, whatever the order the calls settled in.
C32_LoadWritesOwnSlotOnly ==
  /\ (mapEv.op = "resolve" /\ mapEv.wrote) =>
       /\ DOMAIN arrivals = DOMAIN mapEv.before \cup {mapEv.stopCode}
       /\ arrivals[mapEv.stopCode] = mapEv.list
       /\ \A c \in DOMAIN mapEv.before \ {mapEv.stopCode} :
            arrivals[c] = mapEv.before[c]
  /\ (mapEv.op = "resolve" /\ ~mapEv.wrote) => arrivals = mapEv.before
  /\ loads = <<>> =>
       \A i \in 1 .. Len(batch) :
         (/\ batch[i].wrote
          /\ \A j \in i + 1 .. Len(batch) :
               ~(batch[j].wrote /\ batch[j].stopCode = batch[i].stopCode))
         => /\ batch[i].stopCode \in DOMAIN arrivals
            /\ arrivals[batch[i].stopCode] = batch[i].list

\* Two calls for different stops were in flight together, the later call
\* settled first, both succeeded with different lists.
C32_Witness ==
  /\ loads = <<>>
  /\ Len(batch) = 2
  /\ batch[1].n > batch[2].n
  /\ batch[1].stopCode # batch[2].stopCode
  /\ batch[1].wrote /\ batch[2].wrote
  /\ batch[1].list # batch[2].list
  /\ arrivals[batch[1].stopCode] = batch[1].list
  /\ arrivals[batch[2].stopCode] = batch[2].list

\* C33: while the instance is mounted, loading is false exactly when no
\* request issued for the current key is awaiting its response.
C33_LoadingIffRequestOut ==
  mounted => (~loading <=> CurrentRequests = {})

\* C34: in a mounted BusTracker connectionStatus is 'error' exactly when
\* error is set, and 'connected' only when error is null.
C34_StatusAgreesWithError ==
  (kind = "tracker" /\ mounted) =>
    /\ status = "error" <=> error # NoError
    /\ status = "connected" => error = NoError

\* C35: in every kind the continuation of a request leaves loading false,
\* whether the cycle succeeded or failed, and with every request answered in
\* the end a mounted instance that is loading comes to a state where it is
\* not.
C35_CycleEndsLoading ==
  /\ [](ev.op = "resolve" /\ mounted => ~loading)
  /\ (mounted /\ loading) ~> (~mounted \/ ~loading)

\* A cycle of RouteVisualization has failed and loading is false.
C35_Witness ==
  /\ kind = "routeviz"
  /\ mounted
  /\ ev.op = "resolve"
  /\ ev.fail
  /\ ~loading

\* C36: an effect run of BusTracker caused by a change of the stop code,
\* of the refresh interval or of the auto-refresh toggle issues no route
\* request, and no request of such a run changes the route path.
C36_RouteRequestOnServiceOnly ==
  /\ trackerEv.op \in {"stop", "interval", "toggle"} =>
       trackerEv.routeIssued = 0
  /\ (trackerEv.op = "route" /\ trackerEv.by \in {"stop", "interval", "toggle"})
       => trackerView.routePath = trackerEv.pathBefore

\* C37: the selected bus of BusTracker, when there is one, is one of the
\* buses of the arrivals shown and has a non-null, non-zero latitude and
\* longitude.
C37_SelectedBusIsShown ==
  (TrackerMounted /\ trackerView.selectedBus # NoBus) =>
    /\ \E i \in 1 .. Len(AllBuses(trackerPoll.snapshot.a)) :
         AllBuses(trackerPoll.snapshot.a)[i] = trackerView.selectedBus
    /\ NotNullish(trackerView.selectedBus.latitude)
    /\ NotNullish(trackerView.selectedBus.longitude)
    /\ NotStrictZero(trackerView.selectedBus.latitude)
    /\ NotStrictZero(trackerView.selectedBus.longitude)

\* C38: in the route RouteVisualization builds from a response, no two
\* patterns have the same index, and patterns decoded from polylines and
\* patterns made from stop sequences are not both there.
C38_PatternIndicesDistinct ==
  (fn = "RouteVisualization.fetchRouteData" /\ HoldsService(arg.r))
    => LET shown == res.snapshot.a
       IN  /\ ~res.snapshot.null
           /\ \A i \in 1 .. Len(shown) : \A j \in 1 .. Len(shown) :
                shown[i].pattern = shown[j].pattern => i = j
           /\ ~(/\ \E i \in 1 .. Len(shown) : shown[i].stops # 0
                /\ \E j \in 1 .. Len(shown) : shown[j].stops = 0)

\* The route object has two polylines, of which the second decodes, and two
\* stop sequences; the route is the one decoded pattern.
C38_Witness ==
  /\ fn = "RouteVisualization.fetchRouteData" /\ HoldsService(arg.r)
  /\ arg.r.list.polylines.array /\ arg.r.list.stops.array
  /\ Len(arg.r.list.polylines.items) = 2
  /\ Len(arg.r.list.stops.items) = 2
  /\ ~arg.r.list.polylines.items[1].decodes
  /\ arg.r.list.polylines.items[2].decodes
  /\ res.snapshot.a = <<Feature(1, <<2>>, 0)>>

\* C39: the URL getApiUrl builds for an endpoint with one or more
\* parameters reaches the upstream API with the endpoint's path and exactly
\* the endpoint's parameters, in every config and environment.
C39_ParametersReachUpstream ==
  fn = "getApiUrl" => res.upstream = Asked(arg.endpoint)

====
